---- MODULE Spec2Model ----
(***************************************************************************)
(* Verification model of the pcom-assignments repository.                  *)
(*                                                                         *)
(* Part I    TokenPattern (tcp-udp-server/src/common/token_pattern.cpp)    *)
(* Part II   SubscribersRegistry (tcp-udp-server/server)                   *)
(* Part III  TcpMessage wire codec and send_tcp_message                    *)
(* Part IV   Server event loop (tcp-udp-server/src/server/server.cpp)      *)
(*                                                                         *)
(* Each part has its own specification over the shared variables; the     *)
(* variables a part does not use stay at their idle value.                 *)
(***************************************************************************)
EXTENDS Integers, Sequences, FiniteSets, TLC

VARIABLES
    \* Part I: one call of TokenPattern::matches
    m_this,        \* tokens_ of the pattern matches() is called on
    m_other,       \* tokens_ of the argument
    positions,     \* the std::queue of (this_index, other_index) pairs
    m_result,      \* "idle" | "running" | "true" | "false" | "thrown"
    \* Part II: the registry
    subscribers_registry_,  \* [id_subscribers_, sock_subscribers_, topic_subscribers_]
    last_call,     \* the last registry call and whether it threw
    \* Part III: the stream codec
    tcp_buffer_,   \* Server::tcp_buffer_ (bytes written so far; the rest is zero)
    wire,          \* the bytes send_all has put on one stream, in order
    sent_msgs,     \* the messages passed to send_tcp_message, in order
    \* Part IV: the event loop
    poll_fds_,     \* Server::poll_fds_
    pc,            \* where Server::run is
    idx,           \* the subscriber loop's index i
    stopped,       \* run()'s local flag
    kernel,        \* the descriptors as the kernel sees them (queues, hang-ups)
    pending,       \* where a fetch_tcp_request blocked in recv stands
    ev,            \* what the last handler did (observation only)
    \* Part VI: the routing trie
    root_,         \* BinaryTrie::root_ and the nodes it owns
    route_entries, \* the entries inserted and not erased (book-keeping only)
    trie_call,     \* the last call on the trie and what it returned
    \* Part VII: ARP resolution
    arp_table_,       \* ArpTable::arp_table_
    pending_packets_, \* ArpTable::pending_packets_
    link,             \* the frames the last handler handed to send_to_link
    arp_call          \* the last router handler that ran, with its arguments

vars == <<m_this, m_other, positions, m_result, subscribers_registry_, last_call,
          tcp_buffer_, wire, sent_msgs, poll_fds_, pc, idx, stopped, kernel,
          pending, ev, root_, route_entries, trie_call, arp_table_,
          pending_packets_, link, arp_call>>

matchVars == <<m_this, m_other, positions, m_result>>
registryVars == <<subscribers_registry_, last_call>>
codecVars == <<tcp_buffer_, wire, sent_msgs>>
serverVars == <<poll_fds_, pc, idx, stopped, kernel, pending, ev>>
trieVars == <<root_, route_entries, trie_call>>
arpVars == <<arp_table_, pending_packets_, link, arp_call>>
routerVars == <<trieVars, arpVars>>

(***************************************************************************)
(* Generic helpers                                                         *)
(***************************************************************************)
Range(s) == {s[k] : k \in 1..Len(s)}

Min(S) == CHOOSE x \in S : \A y \in S : x <= y

\* Sequences over S of length lo..hi
SeqsOf(S, lo, hi) == UNION {[1..n -> S] : n \in lo..hi}

\* std::unordered_map as a function with a finite domain
EmptyMap == <<>>
MapPut(f, k, v) == [x \in (DOMAIN f) \cup {k} |-> IF x = k THEN v ELSE f[x]]
MapErase(f, k) == [x \in (DOMAIN f) \ {k} |-> f[x]]

(***************************************************************************)
(* Part I.  TokenPattern                                                   *)
(*                                                                         *)
(* A text is a sequence of one-character strings; a token is a non-empty   *)
(* text; tokens_ is a sequence of tokens.  Indices into tokens_ are kept   *)
(* 0-based as in the source; tokens_[k] is Tok(tokens, k).                 *)
(***************************************************************************)
MaxPatLen == 3
MaxTopicLen == 4

separator_ == "/"
Star == <<"*">>
Plus == <<"+">>

Tok(tokens, k) == tokens[k + 1]

is_valid_token(token) == Len(token) > 0

is_wildcard(token) == token = Star \/ token = Plus

has_wildcard(tokens) == \E k \in 1..Len(tokens) : is_wildcard(tokens[k])

\* a validity test that lets two wildcards stand side by side
is_valid_pattern_lax(tokens) ==
    /\ Len(tokens) > 0
    /\ \A k \in 1..Len(tokens) : is_valid_token(tokens[k])

is_valid_pattern(tokens) ==
    /\ Len(tokens) > 0
    /\ is_valid_token(tokens[1])
    /\ \A k \in 2..Len(tokens) :
          /\ is_valid_token(tokens[k])
          /\ ~(is_wildcard(tokens[k]) /\ is_wildcard(tokens[k - 1]))

\* str.find_first_of(separator_, offset): 0-based position, or -1 for npos
RECURSIVE find_first_of(_, _)
find_first_of(str, offset) ==
    IF offset >= Len(str) THEN -1
    ELSE IF str[offset + 1] = separator_ THEN offset
    ELSE find_first_of(str, offset + 1)

\* The while loop of from_string: the tokens pushed from offset on
RECURSIVE from_string_loop(_, _, _)
from_string_loop(str, offset, tokens) ==
    IF offset >= Len(str) THEN tokens
    ELSE LET pos == find_first_of(str, offset) IN
         IF pos = offset THEN from_string_loop(str, offset + 1, tokens)
         ELSE IF pos = -1
              THEN from_string_loop(str, Len(str),
                                    Append(tokens, SubSeq(str, offset + 1, Len(str))))
              ELSE from_string_loop(str, pos + 1,
                                    Append(tokens, SubSeq(str, offset + 1, pos)))

\* TokenPattern::from_string: [ok |-> FALSE] stands for std::invalid_argument
from_string(str) ==
    IF Len(str) = 0 THEN [ok |-> FALSE, tokens |-> <<>>]
    ELSE LET tokens == from_string_loop(str, 0, <<>>) IN
         IF is_valid_pattern(tokens) THEN [ok |-> TRUE, tokens |-> tokens]
         ELSE [ok |-> FALSE, tokens |-> <<>>]

\* The pairs pushed for a '*' at this_index - 1 followed by the literal at
\* this_index: the reverse search runs over other[other_index .. size-1]
\* from the back, and an occurrence at index k pushes (this_index + 1, k + 1).
RECURSIVE star_pushes(_, _, _, _, _)
star_pushes(tokens, other, this_index, other_index, k) ==
    IF k < other_index THEN <<>>
    ELSE IF Tok(other, k) = Tok(tokens, this_index)
         THEN <<(<<this_index + 1, k + 1>>)>>
              \o star_pushes(tokens, other, this_index, other_index, k - 1)
         ELSE star_pushes(tokens, other, this_index, other_index, k - 1)

\* an iteration for which + also stands for two tokens
matches_iter_plus_greedy(tokens, other, queue) ==
    LET this_index == Head(queue)[1]
        other_index == Head(queue)[2]
        rest == Tail(queue)
    IN
    IF this_index = Len(tokens) /\ other_index = Len(other)
    THEN [result |-> "true", queue |-> rest]
    ELSE IF this_index >= Len(tokens) \/ other_index >= Len(other)
    THEN [result |-> "running", queue |-> rest]
    ELSE IF Tok(tokens, this_index) = Star
    THEN IF this_index + 1 = Len(tokens)
         THEN [result |-> "true", queue |-> rest]
         ELSE [result |-> "running",
               queue |-> rest \o star_pushes(tokens, other, this_index + 1,
                                             other_index, Len(other) - 1)]
    ELSE IF Tok(tokens, this_index) = Plus
    THEN [result |-> "running",
          queue |-> rest \o <<(<<this_index + 1, other_index + 1>>),
                              (<<this_index + 1, other_index + 2>>)>>]
    ELSE IF Tok(tokens, this_index) = Tok(other, other_index)
    THEN [result |-> "running",
          queue |-> Append(rest, <<this_index + 1, other_index + 1>>)]
    ELSE [result |-> "running", queue |-> rest]

\* an iteration that puts the pair back on the queue when the literal differs
\* from the topic's token
matches_iter_requeueing(tokens, other, queue) ==
    LET this_index == Head(queue)[1]
        other_index == Head(queue)[2]
        rest == Tail(queue)
    IN
    IF this_index = Len(tokens) /\ other_index = Len(other)
    THEN [result |-> "true", queue |-> rest]
    ELSE IF this_index >= Len(tokens) \/ other_index >= Len(other)
    THEN [result |-> "running", queue |-> rest]
    ELSE IF Tok(tokens, this_index) = Star
    THEN IF this_index + 1 = Len(tokens)
         THEN [result |-> "true", queue |-> rest]
         ELSE [result |-> "running",
               queue |-> rest \o star_pushes(tokens, other, this_index + 1,
                                             other_index, Len(other) - 1)]
    ELSE IF Tok(tokens, this_index) = Plus
            \/ Tok(tokens, this_index) = Tok(other, other_index)
    THEN [result |-> "running",
          queue |-> Append(rest, <<this_index + 1, other_index + 1>>)]
    ELSE [result |-> "running", queue |-> Append(rest, Head(queue))]

\* One iteration of the while loop of matches(): the queue after it and
\* whether the call returned ("true"), or goes on ("running")
matches_iter(tokens, other, queue) ==
    LET this_index == Head(queue)[1]
        other_index == Head(queue)[2]
        rest == Tail(queue)
    IN
    IF this_index = Len(tokens) /\ other_index = Len(other)
    THEN [result |-> "true", queue |-> rest]
    ELSE IF this_index >= Len(tokens) \/ other_index >= Len(other)
    THEN [result |-> "running", queue |-> rest]
    ELSE IF Tok(tokens, this_index) = Star
    THEN IF this_index + 1 = Len(tokens)
         THEN [result |-> "true", queue |-> rest]
         ELSE [result |-> "running",
               queue |-> rest \o star_pushes(tokens, other, this_index + 1,
                                             other_index, Len(other) - 1)]
    ELSE IF Tok(tokens, this_index) = Plus
            \/ Tok(tokens, this_index) = Tok(other, other_index)
    THEN [result |-> "running",
          queue |-> Append(rest, <<this_index + 1, other_index + 1>>)]
    ELSE [result |-> "running", queue |-> rest]

RECURSIVE matches_run(_, _, _)
matches_run(tokens, other, queue) ==
    IF queue = <<>> THEN FALSE
    ELSE LET r == matches_iter(tokens, other, queue) IN
         IF r.result = "true" THEN TRUE
         ELSE matches_run(tokens, other, r.queue)

\* TokenPattern::matches for an argument without wildcards
matches(tokens, other) == matches_run(tokens, other, <<(<<0, 0>>)>>)

\* The inputs of Part I
PatternTokens == {<<"a">>, <<"c">>, Star, Plus}
TopicTokens == {<<"a">>, <<"c">>, <<"x">>}
Patterns == {p \in SeqsOf(PatternTokens, 1, MaxPatLen) : is_valid_pattern(p)}
ConcreteTopics == SeqsOf(TopicTokens, 1, MaxTopicLen)

\* The texts from_string is given: up to MaxStrLen characters
MaxStrLen == 4
Strings == SeqsOf({"a", "/", "*", "+"}, 0, MaxStrLen)

\* from_string is about to be called on a text
ParseEnter ==
    /\ m_other \in Strings
    /\ m_this = <<>>
    /\ positions = <<>>
    /\ m_result = "parsing"

\* from_string returns a pattern or throws std::invalid_argument
FromString ==
    /\ m_result = "parsing"
    /\ LET r == from_string(m_other) IN
       /\ m_this' = r.tokens
       /\ m_result' = IF r.ok THEN "parsed" ELSE "thrown"
    /\ UNCHANGED <<m_other, positions, registryVars, codecVars, serverVars,
                   routerVars>>

MatchIdle ==
    /\ m_this = <<>>
    /\ m_other = <<>>
    /\ positions = <<>>
    /\ m_result = "idle"

\* matches() is entered: the wildcard check, then the queue holds (0, 0)
MatchEnter ==
    /\ m_this \in Patterns
    /\ m_other \in ConcreteTopics \cup {<<Star>>, <<(<<"a">>), Plus>>}
    /\ IF has_wildcard(m_other)
       THEN positions = <<>> /\ m_result = "thrown"
       ELSE positions = <<(<<0, 0>>)>> /\ m_result = "running"

MatchLoop ==
    /\ m_result = "running"
    /\ IF positions = <<>>
       THEN /\ m_result' = "false"
            /\ positions' = positions
       ELSE LET r == matches_iter(m_this, m_other, positions) IN
            /\ m_result' = r.result
            /\ positions' = r.queue
    /\ UNCHANGED <<m_this, m_other, registryVars, codecVars, serverVars,
                   routerVars>>

(***************************************************************************)
(* Part II.  SubscribersRegistry                                           *)
(*                                                                         *)
(* A SubscriberInfo object is created once per id and never destroyed, so  *)
(* the shared_ptr held by the three maps is modelled by the id.            *)
(*   id_subscribers_    : id -> [sockfd, topics]   (the SubscriberInfo)    *)
(*   sock_subscribers_  : sockfd -> id                                     *)
(*   topic_subscribers_ : pattern -> set of ids                            *)
(***************************************************************************)
NumIds == 2
NumFds == 2

NoSock == -1

EmptyRegistry ==
    [id_subscribers_ |-> EmptyMap,
     sock_subscribers_ |-> EmptyMap,
     topic_subscribers_ |-> EmptyMap]

\* SubscriberInfo::is_connected
is_connected(info) == info.sockfd > 0

is_subscriber_connected(reg, sockfd) == sockfd \in DOMAIN reg.sock_subscribers_

\* get_subscriber_by_sockfd: the id of the SubscriberInfo, or a throw
get_subscriber_by_sockfd(reg, sockfd) ==
    IF sockfd \in DOMAIN reg.sock_subscribers_
    THEN [threw |-> FALSE, id |-> reg.sock_subscribers_[sockfd]]
    ELSE [threw |-> TRUE, id |-> ""]

get_subscriber_id(reg, sockfd) == get_subscriber_by_sockfd(reg, sockfd)

\* A connect_subscriber that rebinds the id to the new descriptor even when it
\* is attached (the check of is_connected left out)
connect_subscriber_takeover(reg, sockfd, id) ==
    IF id \in DOMAIN reg.id_subscribers_
    THEN [threw |-> FALSE,
          reg |-> [reg EXCEPT
              !.id_subscribers_[id].sockfd = sockfd,
              !.sock_subscribers_ = MapPut(@, sockfd, id)]]
    ELSE [threw |-> FALSE,
          reg |-> [reg EXCEPT
              !.id_subscribers_ = MapPut(@, id, [sockfd |-> sockfd, topics |-> {}]),
              !.sock_subscribers_ = MapPut(@, sockfd, id)]]

connect_subscriber(reg, sockfd, id) ==
    IF id \in DOMAIN reg.id_subscribers_
    THEN IF is_connected(reg.id_subscribers_[id])
         THEN [threw |-> TRUE, reg |-> reg]
         ELSE [threw |-> FALSE,
               reg |-> [reg EXCEPT
                   !.id_subscribers_[id].sockfd = sockfd,
                   !.sock_subscribers_ = MapPut(@, sockfd, id)]]
    ELSE [threw |-> FALSE,
          reg |-> [reg EXCEPT
              !.id_subscribers_ = MapPut(@, id, [sockfd |-> sockfd, topics |-> {}]),
              !.sock_subscribers_ = MapPut(@, sockfd, id)]]

\* A disconnect_subscriber that drops the subscriber's record with its
\* descriptor (the subscriptions are forgotten)
disconnect_subscriber_forgetting(reg, sockfd) ==
    IF sockfd \notin DOMAIN reg.sock_subscribers_ THEN reg
    ELSE [reg EXCEPT
             !.id_subscribers_ = MapErase(@, reg.sock_subscribers_[sockfd]),
             !.sock_subscribers_ = MapErase(@, sockfd)]

\* A disconnect_subscriber that leaves the record bound to its descriptor
disconnect_subscriber_keeping(reg, sockfd) == reg

disconnect_subscriber(reg, sockfd) ==
    IF sockfd \notin DOMAIN reg.sock_subscribers_ THEN reg
    ELSE LET id == reg.sock_subscribers_[sockfd] IN
         [reg EXCEPT
             !.id_subscribers_[id].sockfd = NoSock,
             !.sock_subscribers_ = MapErase(@, sockfd)]

\* a subscribe that takes the subscriber out of the bucket when it is
\* already in it
subscribe_to_topic_toggling(reg, sockfd, topic) ==
    LET who == get_subscriber_by_sockfd(reg, sockfd) IN
    IF who.threw THEN [threw |-> TRUE, reg |-> reg]
    ELSE [threw |-> FALSE,
          reg |-> [reg EXCEPT
              !.id_subscribers_[who.id].topics = @ \cup {topic},
              !.topic_subscribers_ =
                  MapPut(@, topic,
                         IF topic \in DOMAIN @ /\ who.id \in @[topic]
                         THEN @[topic] \ {who.id}
                         ELSE (IF topic \in DOMAIN @ THEN @[topic] ELSE {})
                                 \cup {who.id})]]

subscribe_to_topic(reg, sockfd, topic) ==
    LET who == get_subscriber_by_sockfd(reg, sockfd) IN
    IF who.threw THEN [threw |-> TRUE, reg |-> reg]
    ELSE [threw |-> FALSE,
          reg |-> [reg EXCEPT
              !.id_subscribers_[who.id].topics = @ \cup {topic},
              !.topic_subscribers_ =
                  MapPut(@, topic,
                         (IF topic \in DOMAIN @ THEN @[topic] ELSE {}) \cup {who.id})]]

\* The bucket handling of unsubscribe_from_topic (lines 62-70)
unsubscribe_bucket(buckets, topic, id) ==
    IF topic \in DOMAIN buckets
    THEN IF Cardinality(buckets[topic]) = 1
         THEN MapErase(buckets, topic)
         ELSE MapPut(buckets, topic, buckets[topic] \ {id})
    ELSE buckets

unsubscribe_from_topic(reg, sockfd, topic) ==
    LET who == get_subscriber_by_sockfd(reg, sockfd) IN
    IF who.threw THEN [threw |-> TRUE, reg |-> reg]
    ELSE [threw |-> FALSE,
          reg |-> [reg EXCEPT
              !.id_subscribers_[who.id].topics = @ \ {topic},
              !.topic_subscribers_ = unsubscribe_bucket(@, topic, who.id)]]

\* retrieve_topic_subscribers: matches() throws when the topic has a wildcard
\* and the pattern index is not empty
retrieve_topic_subscribers(reg, topic) ==
    IF has_wildcard(topic) /\ DOMAIN reg.topic_subscribers_ # {}
    THEN [threw |-> TRUE, fds |-> {}]
    ELSE [threw |-> FALSE,
          fds |-> {reg.id_subscribers_[s].sockfd :
                     s \in {s \in DOMAIN reg.id_subscribers_ :
                              /\ is_connected(reg.id_subscribers_[s])
                              /\ \E p \in DOMAIN reg.topic_subscribers_ :
                                    /\ s \in reg.topic_subscribers_[p]
                                    /\ matches(p, topic)}}]

\* The inputs of Part II
IdNames == <<"sa", "sb", "sc", "sd">>
Ids == {IdNames[k] : k \in 1..NumIds}
FirstClientFd == 5
RegFds == FirstClientFd..(FirstClientFd + NumFds - 1)
A == <<"a">>
C == <<"c">>
RegPatterns == {<<A>>, <<A, Plus>>, <<Star>>}
RegTopics == {<<A>>, <<A, C>>, <<C>>}

NoCall == [op |-> "none", sockfd |-> NoSock, id |-> "", topic |-> <<>>, threw |-> FALSE]

RegistryIdle ==
    /\ subscribers_registry_ = EmptyRegistry
    /\ last_call = NoCall

CallConnect ==
    \E sockfd \in RegFds, id \in Ids :
        LET r == connect_subscriber(subscribers_registry_, sockfd, id) IN
        /\ subscribers_registry_' = r.reg
        /\ last_call' = [op |-> "connect", sockfd |-> sockfd, id |-> id,
                         topic |-> <<>>, threw |-> r.threw]
        /\ UNCHANGED <<matchVars, routerVars, codecVars, serverVars>>

CallDisconnect ==
    \E sockfd \in RegFds :
        /\ subscribers_registry_' = disconnect_subscriber(subscribers_registry_, sockfd)
        /\ last_call' = [op |-> "disconnect", sockfd |-> sockfd, id |-> "",
                         topic |-> <<>>, threw |-> FALSE]
        /\ UNCHANGED <<matchVars, routerVars, codecVars, serverVars>>

CallSubscribe ==
    \E sockfd \in RegFds, topic \in RegPatterns :
        LET r == subscribe_to_topic(subscribers_registry_, sockfd, topic) IN
        /\ subscribers_registry_' = r.reg
        /\ last_call' = [op |-> "subscribe", sockfd |-> sockfd, id |-> "",
                         topic |-> topic, threw |-> r.threw]
        /\ UNCHANGED <<matchVars, routerVars, codecVars, serverVars>>

CallUnsubscribe ==
    \E sockfd \in RegFds, topic \in RegPatterns :
        LET r == unsubscribe_from_topic(subscribers_registry_, sockfd, topic) IN
        /\ subscribers_registry_' = r.reg
        /\ last_call' = [op |-> "unsubscribe", sockfd |-> sockfd, id |-> "",
                         topic |-> topic, threw |-> r.threw]
        /\ UNCHANGED <<matchVars, routerVars, codecVars, serverVars>>


(***************************************************************************)
(* Part III: the wire codec (tcp_proto.cpp) and send_tcp_message.           *)
(* A byte is a number in 0..255; text is the sequence of its byte codes.   *)
(***************************************************************************)
MaxSends == 3

REQUEST == 0
RESPONSE == 1
CONNECT == 0
SUBSCRIBE == 1
UNSUBSCRIBE == 2
PT_INT == 0
PT_SHORT_REAL == 1
PT_FLOAT == 2
PT_STRING == 3
SizeofPayloadSize == 4

\* hton on a uint16_t / uint32_t followed by memcpy: most significant byte first
hton16(v) == <<(v \div 256) % 256, v % 256>>
hton32(v) ==
    <<(v \div 16777216) % 256, (v \div 65536) % 256, (v \div 256) % 256, v % 256>>

\* TcpRequestPayloadId::serialize and TcpRequestPayloadTopic::serialize
TcpRequestPayload_serialize(text) == <<Len(text) % 256>> \o text

TcpRequest_serialize(request) ==
    <<request.type>> \o TcpRequestPayload_serialize(request.text)

TcpRequest_serialized_size(request) == 1 + (1 + Len(request.text))

\* serialize_variant over the four response payloads
TcpResponsePayload_serialize(ptype, pl) ==
    CASE ptype = PT_INT -> <<pl.sign>> \o hton32(pl.value)
      [] ptype = PT_SHORT_REAL -> hton16(pl.value)
      [] ptype = PT_FLOAT -> <<pl.sign>> \o hton32(pl.value) \o <<pl.exponent>>
      [] ptype = PT_STRING -> hton16(Len(pl.value)) \o pl.value

TcpResponsePayload_serialized_size(ptype, pl) ==
    CASE ptype = PT_INT -> 1 + 4
      [] ptype = PT_SHORT_REAL -> 2
      [] ptype = PT_FLOAT -> 1 + 4 + 1
      [] ptype = PT_STRING -> 2 + Len(pl.value)

TcpResponse_serialize(response) ==
    response.udp_client_ip \o hton16(response.udp_client_port)
        \o <<Len(response.topic) % 256>> \o response.topic
        \o <<response.ptype>>
        \o TcpResponsePayload_serialize(response.ptype, response.payload)

TcpResponse_serialized_size(response) ==
    4 + 2 + 1 + Len(response.topic) + 1
        + TcpResponsePayload_serialized_size(response.ptype, response.payload)

\* The serialized size of the alternative the message variant holds
inner_serialized_size(message) ==
    IF message.kind = REQUEST THEN TcpRequest_serialized_size(message)
    ELSE TcpResponse_serialized_size(message)

\* TcpMessage::serialize: kind, uint16_t inner size in network order, inner
TcpMessage_serialize(message) ==
    <<message.kind>> \o hton16(inner_serialized_size(message) % 65536)
        \o (IF message.kind = REQUEST THEN TcpRequest_serialize(message)
            ELSE TcpResponse_serialize(message))

\* TcpMessage::serialized_size: sizeof(TcpMessageType) + sizeof(payload_size)
\* + inner, payload_size being the uint32_t member
TcpMessage_serialized_size(message) ==
    1 + SizeofPayloadSize + inner_serialized_size(message)

\* The buffer is MAX_SERIALIZED_SIZE value-initialised bytes; tcp_buffer_ holds
\* the prefix written so far.
BufferAt(buf, k) == IF k <= Len(buf) THEN buf[k] ELSE 0

\* memcpy of bytes to the start of the buffer
WriteBuffer(buf, bytes) == bytes \o SubSeq(buf, Len(bytes) + 1, Len(buf))

\* Messages the two programs build (text as byte codes: "sa", "a", "a/c", "hi")
CodecRequests ==
    { [kind |-> REQUEST, type |-> CONNECT, text |-> <<115, 97>>],
      [kind |-> REQUEST, type |-> SUBSCRIBE, text |-> <<97, 47, 99>>],
      [kind |-> REQUEST, type |-> UNSUBSCRIBE, text |-> <<97>>] }

CodecIp == <<10, 0, 0, 7>>

CodecResponses ==
    { [kind |-> RESPONSE, udp_client_ip |-> CodecIp, udp_client_port |-> 4660,
       topic |-> <<97>>, ptype |-> PT_INT, payload |-> [sign |-> 1, value |-> 258]],
      [kind |-> RESPONSE, udp_client_ip |-> CodecIp, udp_client_port |-> 4660,
       topic |-> <<97, 47, 99>>, ptype |-> PT_SHORT_REAL, payload |-> [value |-> 513]],
      [kind |-> RESPONSE, udp_client_ip |-> CodecIp, udp_client_port |-> 4660,
       topic |-> <<99>>, ptype |-> PT_FLOAT,
       payload |-> [sign |-> 0, value |-> 66051, exponent |-> 2]],
      [kind |-> RESPONSE, udp_client_ip |-> CodecIp, udp_client_port |-> 4660,
       topic |-> <<97>>, ptype |-> PT_STRING, payload |-> [value |-> <<104, 105>>]] }

\* Server::send_tcp_message / Client::send_tcp_message, send_all succeeding:
\* serialize into the buffer, then put serialized_size() bytes of it on the stream
send_tcp_message(message) ==
    LET buf == WriteBuffer(tcp_buffer_, TcpMessage_serialize(message))
        msg_size == TcpMessage_serialized_size(message)
    IN /\ tcp_buffer_' = buf
       /\ wire' = wire \o [k \in 1..msg_size |-> BufferAt(buf, k)]
       /\ sent_msgs' = Append(sent_msgs, message)

\* One program's stream: the broker sends responses, the client sends requests
SendTcpMessage ==
    /\ Len(sent_msgs) < MaxSends
    /\ \E message \in CodecRequests \cup CodecResponses :
          /\ IF sent_msgs = <<>> THEN TRUE ELSE message.kind = sent_msgs[1].kind
          /\ send_tcp_message(message)
    /\ UNCHANGED <<matchVars, routerVars, registryVars, serverVars>>

\* fetch_tcp_request / fetch_tcp_response: recv_all stores the inner bytes of a
\* received envelope at the start of the same buffer (the broker receives
\* requests, the client responses)
FetchIntoBuffer ==
    /\ sent_msgs # <<>>
    /\ Len(sent_msgs) < MaxSends
    /\ \E message \in CodecRequests \cup CodecResponses :
          /\ message.kind # sent_msgs[1].kind
          /\ tcp_buffer_' =
                WriteBuffer(tcp_buffer_,
                            IF message.kind = REQUEST
                            THEN TcpRequest_serialize(message)
                            ELSE TcpResponse_serialize(message))
    /\ UNCHANGED <<wire, sent_msgs, matchVars, routerVars, registryVars, serverVars>>

(***************************************************************************)
(* Idle values of Parts III and IV                                         *)
(***************************************************************************)
NoPending == [stage |-> "none", size |-> 0, got |-> <<>>]
Event(kind, fd, why) ==
    [kind |-> kind, fd |-> fd, why |-> why, sent |-> {}, closed |-> {}, failed |-> {}]
NoEvent == Event("none", NoSock, "")
NoKernel == [udp_q |-> <<>>, arrived |-> 0, backlog |-> FALSE, stdin |-> "quiet",
             closed |-> {}]

CodecIdle ==
    /\ tcp_buffer_ = <<>>
    /\ wire = <<>>
    /\ sent_msgs = <<>>

ServerIdle ==
    /\ poll_fds_ = <<>>
    /\ pc = "off"
    /\ idx = 0
    /\ stopped = FALSE
    /\ kernel = NoKernel
    /\ pending = NoPending
    /\ ev = NoEvent

(***************************************************************************)
(* Part IV: Server (src/server/server.cpp).                                 *)
(*                                                                         *)
(* The descriptors: standard input is 0; socket() in the constructor       *)
(* returns the two lowest free descriptors, 3 and 4.  The kernel record    *)
(* holds what the environment has done to them: the datagrams queued on    *)
(* the datagram socket, whether a stream connection waits in the listen    *)
(* backlog, whether standard input is readable or hung up, and the         *)
(* descriptors the broker has closed.                                      *)
(***************************************************************************)
MaxQueue == 2
MaxDatagrams == 6

STDIN_FILENO == 0
listen_fd_ == 3
udp_fd_ == 4
MAX_SERIALIZED_SIZE == 1565
TCP_CLIENT_ID_MAX_SIZE == 10
TCP_RESP_TOPIC_MAX_SIZE == 50

POLLIN == "POLLIN"
POLLERR == "POLLERR"
POLLHUP == "POLLHUP"

\* pollfd{.fd = fd, .events = events}; revents is zero
PollFd(fd, events) == [fd |-> fd, events |-> events, revents |-> {}]

\* A value-initialised pollfd, as the vector's size constructor makes them
ValueInitPollFd == [fd |-> 0, events |-> {}, revents |-> {}]

\* poll_fds_[i] with the index of the code (from 0)
PF(i) == poll_fds_[i + 1]

register_pollfd(fds, fd, events) == Append(fds, PollFd(fd, events))

\* unregister_pollfd: the list after the swap with back() and pop_back()
unregister_pollfd(fds, pollfd_index) ==
    SubSeq([fds EXCEPT ![pollfd_index + 1] = fds[Len(fds)]], 1, Len(fds) - 1)

\* unregister_pollfd: close() of a descriptor above 0
close_pollfd(k, fd) == IF fd > 0 THEN [k EXCEPT !.closed = @ \cup {fd}] ELSE k

\* a disconnect_client that closes the descriptor and drops its pollfd without
\* asking the registry to detach the subscriber
disconnect_client_unregistering_only(reg, fds, k, pollfd_index) ==
    [reg |-> reg,
     fds |-> unregister_pollfd(fds, pollfd_index),
     kernel |-> close_pollfd(k, fds[pollfd_index + 1].fd)]

\* disconnect_client: [reg, fds, kernel] after it
disconnect_client(reg, fds, k, pollfd_index) ==
    LET sockfd == fds[pollfd_index + 1].fd IN
    [reg |-> IF is_subscriber_connected(reg, sockfd)
             THEN disconnect_subscriber(reg, sockfd) ELSE reg,
     fds |-> unregister_pollfd(fds, pollfd_index),
     kernel |-> close_pollfd(k, sockfd)]

\* What poll() reports for one entry: POLLIN only when asked for in events,
\* POLLHUP whether asked for or not
ReadyIn(k, fd) ==
    CASE fd = listen_fd_ -> k.backlog
      [] fd = udp_fd_ -> udp_fd_ \notin k.closed /\ k.udp_q # <<>>
      [] fd = STDIN_FILENO -> k.stdin \in {"exit", "other"}
      [] OTHER -> FALSE

HungUp(k, fd) == fd = STDIN_FILENO /\ k.stdin = "hup"

Revents(k, pfd) ==
    (IF POLLIN \in pfd.events /\ ReadyIn(k, pfd.fd) THEN {POLLIN} ELSE {})
        \cup (IF HungUp(k, pfd.fd) THEN {POLLHUP} ELSE {})

\* The bytes of a text as characters
CharOf(b) ==
    CASE b = 42 -> "*" [] b = 43 -> "+" [] b = 47 -> "/"
      [] b = 97 -> "a" [] b = 99 -> "c" [] b = 115 -> "s" [] OTHER -> "?"

to_chars(bytes) == [k \in 1..Len(bytes) |-> CharOf(bytes[k])]

\* recv_all on the datagram socket: every recv() takes one queued datagram
\* and returns its first bytes, up to the number still wanted (the rest of the
\* datagram is dropped); a datagram of length 0 makes recv() return 0; with
\* nothing queued recv() blocks.
RECURSIVE recv_all(_, _, _)
recv_all(q, buffer_size, got) ==
    IF Len(got) >= buffer_size THEN [status |-> "ok", bytes |-> got, q |-> q]
    ELSE IF q = <<>> THEN [status |-> "blocked", bytes |-> got, q |-> q]
    ELSE IF Len(Head(q)) = 0 THEN [status |-> "closed", bytes |-> got, q |-> Tail(q)]
    ELSE LET want == buffer_size - Len(got)
             received == IF Len(Head(q)) < want THEN Len(Head(q)) ELSE want
         IN recv_all(Tail(q), buffer_size, got \o SubSeq(Head(q), 1, received))

\* recv_all by descriptor: recv() on the listening socket fails with ENOTCONN
\* and on standard input with ENOTSOCK (TcpTransmissionError); a stream
\* descriptor nothing has been written to blocks.
recv_all_on(fd, q, buffer_size, got) ==
    IF Len(got) >= buffer_size THEN [status |-> "ok", bytes |-> got, q |-> q]
    ELSE IF fd = listen_fd_ \/ fd = STDIN_FILENO
         THEN [status |-> "error", bytes |-> got, q |-> q]
    ELSE IF fd = udp_fd_ THEN recv_all(q, buffer_size, got)
    ELSE [status |-> "blocked", bytes |-> got, q |-> q]

\* TcpRequestPayloadId::deserialize / TcpRequestPayloadTopic::deserialize
TcpRequestPayload_deserialize(buffer, max_size) ==
    IF Len(buffer) < 1 THEN [ok |-> FALSE, text |-> <<>>]
    ELSE IF buffer[1] > max_size THEN [ok |-> FALSE, text |-> <<>>]
    ELSE IF buffer[1] > Len(buffer) - 1 THEN [ok |-> FALSE, text |-> <<>>]
    ELSE [ok |-> TRUE, text |-> SubSeq(buffer, 2, buffer[1] + 1)]

NoRequest == [kind |-> REQUEST, type |-> -1, text |-> <<>>]

\* TcpRequest::deserialize: [ok |-> FALSE] stands for std::invalid_argument
TcpRequest_deserialize(buffer) ==
    IF Len(buffer) < 1 THEN [ok |-> FALSE, request |-> NoRequest]
    ELSE IF buffer[1] \notin {CONNECT, SUBSCRIBE, UNSUBSCRIBE}
         THEN [ok |-> FALSE, request |-> NoRequest]
    ELSE LET pl == TcpRequestPayload_deserialize(
                       Tail(buffer),
                       IF buffer[1] = CONNECT THEN TCP_CLIENT_ID_MAX_SIZE
                       ELSE TCP_RESP_TOPIC_MAX_SIZE)
         IN IF pl.ok
            THEN [ok |-> TRUE,
                  request |-> [kind |-> REQUEST, type |-> buffer[1], text |-> pl.text]]
            ELSE [ok |-> FALSE, request |-> NoRequest]

FetchResult(status, q, stage, size, got, request) ==
    [status |-> status, q |-> q, stage |-> stage, size |-> size, got |-> got,
     request |-> request]

\* fetch_tcp_request(sockfd) from the recv_all call it stands in (stage: "kind",
\* "size", "payload") with the bytes that call has got so far.  status:
\*   "request"  the request was read and deserialized
\*   "closed"   TcpConnectionClosed
\*   "error"    TcpTransmissionError
\*   "invalid"  std::invalid_argument
\*   "blocked"  recv() is waiting for data
RECURSIVE fetch_tcp_request(_, _, _, _, _)
fetch_tcp_request(sockfd, q, stage, size, got) ==
    LET need == CASE stage = "kind" -> 1 [] stage = "size" -> 2 [] OTHER -> size
        r == recv_all_on(sockfd, q, need, got)
    IN
    IF r.status # "ok" THEN FetchResult(r.status, r.q, stage, size, r.bytes, NoRequest)
    ELSE IF stage = "kind"
    THEN IF r.bytes[1] # REQUEST
         THEN FetchResult("invalid", r.q, stage, size, r.bytes, NoRequest)
         ELSE fetch_tcp_request(sockfd, r.q, "size", 0, <<>>)
    ELSE IF stage = "size"
    THEN LET payload_size == r.bytes[1] * 256 + r.bytes[2] IN
         IF payload_size > MAX_SERIALIZED_SIZE
         THEN FetchResult("invalid", r.q, stage, size, r.bytes, NoRequest)
         ELSE fetch_tcp_request(sockfd, r.q, "payload", payload_size, <<>>)
    ELSE LET d == TcpRequest_deserialize(r.bytes) IN
         FetchResult(IF d.ok THEN "request" ELSE "invalid", r.q, stage, size,
                     r.bytes, d.request)

\* a handle_tcp_request whose CONNECT case does not ask whether a subscriber is
\* attached on the descriptor (CONNECT only; the other cases are not used)
handle_tcp_request_rebinding(reg, sockfd, request) ==
    LET c == connect_subscriber(reg, sockfd, to_chars(request.text)) IN
    IF request.type # CONNECT
    THEN [reg |-> reg, dismissed |-> FALSE, why |-> "invalid_type"]
    ELSE IF c.threw
    THEN [reg |-> reg, dismissed |-> FALSE, why |-> "already_connected"]
    ELSE [reg |-> c.reg, dismissed |-> TRUE, why |-> "connected"]

\* handle_tcp_request without the scope guard's cleanup: the registry after the
\* request, whether the guard was dismissed, and what the request came to.
\* (deserialize always emplaces the payload alternative of the request type, so
\* the two payload_type() checks never fail.)
handle_tcp_request(reg, sockfd, request) ==
    IF request.type = CONNECT
    THEN IF is_subscriber_connected(reg, sockfd)
         THEN [reg |-> reg, dismissed |-> FALSE, why |-> "connect_on_attached"]
         ELSE LET c == connect_subscriber(reg, sockfd, to_chars(request.text)) IN
              IF c.threw
              THEN [reg |-> reg, dismissed |-> FALSE, why |-> "already_connected"]
              ELSE [reg |-> c.reg, dismissed |-> TRUE, why |-> "connected"]
    ELSE IF request.type = SUBSCRIBE \/ request.type = UNSUBSCRIBE
    THEN IF ~is_subscriber_connected(reg, sockfd)
         THEN [reg |-> reg, dismissed |-> FALSE, why |-> "not_connected"]
         ELSE LET topic_pat == from_string(to_chars(request.text)) IN
              IF ~topic_pat.ok
              THEN [reg |-> reg, dismissed |-> FALSE, why |-> "invalid_pattern"]
              ELSE LET u == IF request.type = SUBSCRIBE
                            THEN subscribe_to_topic(reg, sockfd, topic_pat.tokens)
                            ELSE unsubscribe_from_topic(reg, sockfd, topic_pat.tokens)
                   IN IF u.threw
                      THEN [reg |-> reg, dismissed |-> FALSE, why |-> "registry_error"]
                      ELSE [reg |-> u.reg, dismissed |-> TRUE,
                            why |-> IF request.type = SUBSCRIBE THEN "subscribed"
                                    ELSE "unsubscribed"]
    ELSE [reg |-> reg, dismissed |-> FALSE, why |-> "invalid_type"]

UDP_MSG_TOPIC_SIZE == 50
UDP_MIN_SERIALIZED_SIZE == 52

\* strnlen(buffer, maxlen)
RECURSIVE strnlen(_, _, _)
strnlen(buffer, maxlen, n) ==
    IF n >= maxlen \/ n >= Len(buffer) THEN n
    ELSE IF buffer[n + 1] = 0 THEN n
    ELSE strnlen(buffer, maxlen, n + 1)

\* UdpMessage::deserialize: the topic text, the payload kind and the payload
\* bytes; [ok |-> FALSE] stands for std::invalid_argument
UdpMessage_deserialize(buffer) ==
    IF Len(buffer) < UDP_MIN_SERIALIZED_SIZE
    THEN [ok |-> FALSE, topic |-> <<>>, ptype |-> -1, payload |-> <<>>]
    ELSE LET topic_len == strnlen(buffer, UDP_MSG_TOPIC_SIZE, 0)
             ptype == buffer[UDP_MSG_TOPIC_SIZE + 1]
             rest == SubSeq(buffer, UDP_MSG_TOPIC_SIZE + 2, Len(buffer))
             min_size == CASE ptype = PT_INT -> 5
                           [] ptype = PT_SHORT_REAL -> 2
                           [] ptype = PT_FLOAT -> 6
                           [] OTHER -> 1
         IN IF ptype \in {PT_INT, PT_SHORT_REAL, PT_FLOAT, PT_STRING}
               /\ Len(rest) >= min_size
            THEN [ok |-> TRUE, topic |-> SubSeq(buffer, 1, topic_len),
                  ptype |-> ptype, payload |-> rest]
            ELSE [ok |-> FALSE, topic |-> <<>>, ptype |-> -1, payload |-> <<>>]

\* What send_all comes to for one recipient: all bytes sent, TcpConnectionClosed
\* (EPIPE, ECONNRESET) or TcpTransmissionError
SendResults == {"ok", "closed", "error"}

\* The fan-out loop of run() (lines 433-450) with the result of each send:
\* the descriptors served, those whose send met a closed connection, those
\* whose send failed otherwise, and whether get_subscriber_id threw inside
\* the handler of TcpConnectionClosed.  No statement of the loop changes the
\* registry or the watched list.
fan_out(reg, subscribers, outcome) ==
    LET targets == {fd \in subscribers : fd >= 0} IN
    [sent |-> {fd \in targets : outcome[fd] = "ok"},
     closed |-> {fd \in targets : outcome[fd] = "closed"},
     failed |-> {fd \in targets : outcome[fd] = "error"},
     threw |-> \E fd \in targets :
                  outcome[fd] = "closed" /\ get_subscriber_id(reg, fd).threw]

\* The datagram branch of run() for one received datagram: the events it can
\* come to (one per combination of send results)
UdpBranchEvents(reg, datagram) ==
    LET m == UdpMessage_deserialize(datagram) IN
    IF ~m.ok THEN {Event("datagram", udp_fd_, "invalid_message")}
    ELSE LET topic == from_string(to_chars(m.topic)) IN
         IF ~topic.ok THEN {Event("datagram", udp_fd_, "invalid_topic")}
         ELSE LET r == retrieve_topic_subscribers(reg, topic.tokens) IN
              IF r.threw THEN {Event("datagram", udp_fd_, "invalid_topic")}
              ELSE IF r.fds = {} THEN {Event("datagram", udp_fd_, "no_subscribers")}
              ELSE {LET f == fan_out(reg, r.fds, outcome) IN
                    [Event("datagram", udp_fd_, IF f.threw THEN "threw" ELSE "fan_out")
                        EXCEPT !.sent = f.sent, !.closed = f.closed, !.failed = f.failed] :
                    outcome \in [r.fds -> SendResults]}

StdinTokens == {"exit", "other"}
AcceptOutcomes == {"ok", "accept_failed", "nodelay_failed"}

\* accept() returns the lowest descriptor not in use
OpenFds(fds, k) ==
    ({0, 1, 2, listen_fd_, udp_fd_} \cup {fds[j].fd : j \in 4..Len(fds)}) \ k.closed

accept_fd(fds, k) == Min({fd \in 0..(Len(fds) + 5) : fd \notin OpenFds(fds, k)})

\* The state the constructor leaves: poll_fds_{3} makes three value-initialised
\* entries, and the three register_pollfd calls push after them
ConstructedPollFds ==
    register_pollfd(
        register_pollfd(
            register_pollfd(<<ValueInitPollFd, ValueInitPollFd, ValueInitPollFd>>,
                            listen_fd_, {POLLIN}),
            udp_fd_, {POLLIN}),
        STDIN_FILENO, {POLLIN})

ServerConstructed ==
    /\ poll_fds_ = ConstructedPollFds
    /\ pc = "poll"
    /\ idx = 3
    /\ stopped = FALSE
    /\ kernel = NoKernel
    /\ pending = NoPending
    /\ ev = NoEvent

\* The datagrams the environment sends: empty, one byte (0 is also the
\* envelope kind REQUEST), two bytes (also read as a size or as a request:
\* <<0, 0>> is CONNECT with an empty id, <<1, 0>> SUBSCRIBE with an empty topic)
Datagrams == {<<>>, <<0>>, <<1>>, <<0, 2>>, <<0, 0>>, <<1, 0>>}

RunIsOver == pc \in {"off", "returned", "thrown", "blocked_recvfrom"}

DatagramArrives ==
    /\ ~RunIsOver
    /\ udp_fd_ \notin kernel.closed
    /\ Len(kernel.udp_q) < MaxQueue
    /\ kernel.arrived < MaxDatagrams
    /\ \E datagram \in Datagrams :
          kernel' = [kernel EXCEPT !.udp_q = Append(@, datagram), !.arrived = @ + 1]
    /\ UNCHANGED <<poll_fds_, pc, idx, stopped, pending, ev,
                   matchVars, routerVars, registryVars, codecVars>>

PeerConnects ==
    /\ ~RunIsOver
    /\ ~kernel.backlog
    /\ kernel' = [kernel EXCEPT !.backlog = TRUE]
    /\ UNCHANGED <<poll_fds_, pc, idx, stopped, pending, ev,
                   matchVars, routerVars, registryVars, codecVars>>

\* A line is typed on standard input: its first token is exit or something else
StdinReadable ==
    /\ ~RunIsOver
    /\ kernel.stdin = "quiet"
    /\ \E token \in StdinTokens : kernel' = [kernel EXCEPT !.stdin = token]
    /\ UNCHANGED <<poll_fds_, pc, idx, stopped, pending, ev,
                   matchVars, routerVars, registryVars, codecVars>>

StdinHangsUp ==
    /\ ~RunIsOver
    /\ kernel.stdin = "quiet"
    /\ kernel' = [kernel EXCEPT !.stdin = "hup"]
    /\ UNCHANGED <<poll_fds_, pc, idx, stopped, pending, ev,
                   matchVars, routerVars, registryVars, codecVars>>

\* poll() returns with a descriptor ready: revents of every entry is set
Poll ==
    /\ pc = "poll"
    /\ \E j \in 1..Len(poll_fds_) : Revents(kernel, poll_fds_[j]) # {}
    /\ poll_fds_' = [j \in 1..Len(poll_fds_) |->
                        [poll_fds_[j] EXCEPT !.revents = Revents(kernel, poll_fds_[j])]]
    /\ pc' = "permanent"
    /\ ev' = NoEvent
    /\ UNCHANGED <<idx, stopped, kernel, pending, matchVars, routerVars, registryVars, codecVars>>

\* poll() fails with an error other than EINTR: run() throws "Poll error"
PollFails ==
    /\ pc = "poll"
    /\ pc' = "thrown"
    /\ ev' = Event("poll_error", NoSock, "Poll error")
    /\ UNCHANGED <<poll_fds_, idx, stopped, kernel, pending,
                   matchVars, routerVars, registryVars, codecVars>>

\* The three branches of run() on poll_fds_[2], poll_fds_[1] and poll_fds_[0]
\* (lines 401-478), in the order of the code.  A recvfrom with nothing queued
\* would block the broker for good ("blocked_recvfrom").
PermanentBranches ==
    /\ pc = "permanent"
    /\ LET stdin_ready == POLLIN \in PF(2).revents
           udp_ready == POLLIN \in PF(1).revents
           listen_ready == POLLIN \in PF(0).revents
           udp_blocks == udp_ready /\ kernel.udp_q = <<>>
       IN
       \E token \in (IF stdin_ready THEN {kernel.stdin} ELSE {"none"}),
          acc \in (IF listen_ready THEN AcceptOutcomes ELSE {"none"}),
          e \in (IF udp_ready /\ ~udp_blocks
                 THEN UdpBranchEvents(subscribers_registry_, Head(kernel.udp_q))
                 ELSE {ev}) :
          LET went_on == ~udp_blocks /\ e.why # "threw"
              client_fd == accept_fd(poll_fds_, kernel)
          IN
          /\ stopped' = (stopped \/ token = "exit")
          /\ kernel' =
                [kernel EXCEPT
                    !.stdin = IF stdin_ready THEN "quiet" ELSE @,
                    !.udp_q = IF udp_ready /\ ~udp_blocks THEN Tail(@) ELSE @,
                    !.backlog = IF went_on /\ acc \in {"ok", "nodelay_failed"}
                                THEN FALSE ELSE @,
                    !.closed = IF went_on /\ acc = "ok" THEN @ \ {client_fd} ELSE @]
          /\ poll_fds_' = IF went_on /\ acc = "ok"
                          THEN register_pollfd(poll_fds_, client_fd, {POLLIN})
                          ELSE poll_fds_
          /\ ev' = e
          /\ pc' = IF udp_blocks THEN "blocked_recvfrom"
                   ELSE IF e.why = "threw" THEN "thrown"
                   ELSE "clients"
          /\ idx' = 3
    /\ UNCHANGED <<pending, matchVars, routerVars, registryVars, codecVars>>

\* if (initial_size <= poll_fds_.size()) ++i;
next_index(i, initial_size, size) == IF initial_size <= size THEN i + 1 ELSE i

\* The rest of the loop body for poll_fds_[i] once fetch_tcp_request(sockfd)
\* has come to r: the catch clauses, handle_tcp_request with its scope guard,
\* and the index update
AfterFetch(i, r) ==
    LET sockfd == PF(i).fd
        k1 == [kernel EXCEPT !.udp_q = IF sockfd = udp_fd_ THEN r.q ELSE @]
        gone == disconnect_client(subscribers_registry_, poll_fds_, k1, i)
        h == handle_tcp_request(subscribers_registry_, sockfd, r.request)
        h_gone == disconnect_client(h.reg, poll_fds_, k1, i)
    IN
    /\ tcp_buffer_' = IF r.stage = "payload" THEN WriteBuffer(tcp_buffer_, r.got)
                      ELSE tcp_buffer_
    /\ IF r.status = "blocked"
       THEN /\ pc' = "blocked_recv"
            /\ pending' = [stage |-> r.stage, size |-> r.size, got |-> r.got]
            /\ kernel' = k1
            /\ ev' = Event("blocked", sockfd, r.stage)
            /\ UNCHANGED <<poll_fds_, idx, subscribers_registry_>>
       ELSE /\ pc' = "clients"
            /\ pending' = NoPending
            /\ IF r.status = "closed"
               THEN /\ subscribers_registry_' = gone.reg
                    /\ poll_fds_' = gone.fds
                    /\ kernel' = gone.kernel
                    /\ ev' = Event("fetch_failed", sockfd, "closed")
               ELSE IF r.status \in {"error", "invalid"}
               THEN /\ kernel' = k1
                    /\ ev' = Event("fetch_failed", sockfd, r.status)
                    /\ UNCHANGED <<poll_fds_, subscribers_registry_>>
               ELSE /\ subscribers_registry_' = IF h.dismissed THEN h.reg ELSE h_gone.reg
                    /\ poll_fds_' = IF h.dismissed THEN poll_fds_ ELSE h_gone.fds
                    /\ kernel' = IF h.dismissed THEN k1 ELSE h_gone.kernel
                    /\ ev' = Event("request", sockfd, h.why)
            /\ idx' = next_index(i, Len(poll_fds_), Len(poll_fds_'))
    /\ UNCHANGED <<wire, sent_msgs, stopped, last_call, matchVars, routerVars>>

\* One pass of the body of the subscriber loop (lines 481-521) for i = idx
HandleSubscriber ==
    /\ pc = "clients"
    /\ idx < Len(poll_fds_)
    /\ LET sockfd == PF(idx).fd
           gone == disconnect_client(subscribers_registry_, poll_fds_, kernel, idx)
       IN
       IF POLLIN \in PF(idx).revents
       THEN AfterFetch(idx, fetch_tcp_request(sockfd, kernel.udp_q, "kind", 0, <<>>))
       ELSE IF PF(idx).revents \cap {POLLERR, POLLHUP} # {}
       THEN IF get_subscriber_id(subscribers_registry_, sockfd).threw
            THEN /\ pc' = "thrown"
                 /\ ev' = Event("exception", sockfd, "Subscriber not connected")
                 /\ UNCHANGED <<poll_fds_, idx, stopped, kernel, pending,
                                matchVars, routerVars, registryVars, codecVars>>
            ELSE /\ subscribers_registry_' = gone.reg
                 /\ poll_fds_' = gone.fds
                 /\ kernel' = gone.kernel
                 /\ idx' = next_index(idx, Len(poll_fds_), Len(poll_fds_'))
                 /\ ev' = Event("hangup", sockfd, "")
                 /\ UNCHANGED <<pc, stopped, pending, last_call, matchVars, routerVars, codecVars>>
       ELSE /\ idx' = idx + 1
            /\ UNCHANGED <<poll_fds_, pc, stopped, kernel, pending, ev,
                           matchVars, routerVars, registryVars, codecVars>>

\* The subscriber loop ends; while (!stopped) decides
LoopEnd ==
    /\ pc = "clients"
    /\ idx >= Len(poll_fds_)
    /\ pc' = IF stopped THEN "returned" ELSE "poll"
    /\ UNCHANGED <<poll_fds_, idx, stopped, kernel, pending, ev,
                   matchVars, routerVars, registryVars, codecVars>>

\* A datagram arrives while recv() inside fetch_tcp_request is waiting on the
\* datagram socket: the call goes on where it stood
ResumeRecv ==
    /\ pc = "blocked_recv"
    /\ PF(idx).fd = udp_fd_
    /\ kernel.udp_q # <<>>
    /\ AfterFetch(idx, fetch_tcp_request(udp_fd_, kernel.udp_q, pending.stage,
                                         pending.size, pending.got))

\* The fan-out of one publication on topic, the registry being as the calls
\* so far left it: retrieve_topic_subscribers, then the send loop; last_call
\* records the loop's result.
FanOut ==
    /\ last_call.op # "fan_out"    \* a second fan-out on the same registry repeats the first
    /\ \E topic \in RegTopics :
          \E r \in {retrieve_topic_subscribers(subscribers_registry_, topic)} :
             /\ ~r.threw
             /\ r.fds # {}
             /\ \E outcome \in [r.fds -> SendResults] :
                   \E f \in {fan_out(subscribers_registry_, r.fds, outcome)} :
                      last_call' = [op |-> "fan_out", sockfd |-> NoSock, id |-> "",
                                    topic |-> topic, threw |-> f.threw,
                                    sent |-> f.sent, closed |-> f.closed,
                                    failed |-> f.failed]
    /\ UNCHANGED <<subscribers_registry_, matchVars, routerVars, codecVars, serverVars>>

(***************************************************************************)
(* The call sequence connect(d1, id), subscribe(d1, p), disconnect(d1),    *)
(* connect(d2, id) on a registry that holds nothing or one other           *)
(* subscriber; last_call carries the arguments from call to call.  A       *)
(* publication may be fanned out while the subscriber is detached and      *)
(* after it is attached again; last_call.log keeps every send.             *)
(***************************************************************************)
BystanderId == "sz"
BystanderFd == FirstClientFd + NumFds

\* The registries the sequence starts from: empty, or with the bystander
\* attached or detached, subscribed to one pattern
BystanderAttached(q) ==
    subscribe_to_topic(
        connect_subscriber(EmptyRegistry, BystanderFd, BystanderId).reg,
        BystanderFd, q).reg

PriorRegistries ==
    {EmptyRegistry}
       \cup {BystanderAttached(q) : q \in RegPatterns}
       \cup {disconnect_subscriber(BystanderAttached(q), BystanderFd) : q \in RegPatterns}

ScenarioCall(op, sockfd, id, topic, threw, was, published, log) ==
    [op |-> op, sockfd |-> sockfd, id |-> id, topic |-> topic, threw |-> threw,
     was |-> was, published |-> published, log |-> log]

ScenarioAttach ==
    /\ last_call.op = "none"
    /\ \E d1 \in RegFds, id \in Ids :
          LET r == connect_subscriber(subscribers_registry_, d1, id) IN
          /\ subscribers_registry_' = r.reg
          /\ last_call' = ScenarioCall("attach", d1, id, <<>>, r.threw, NoSock, <<>>, {})
    /\ UNCHANGED <<matchVars, routerVars, codecVars, serverVars>>

ScenarioSubscribe ==
    /\ last_call.op = "attach"
    /\ \E p \in RegPatterns :
          LET r == subscribe_to_topic(subscribers_registry_, last_call.sockfd, p) IN
          /\ subscribers_registry_' = r.reg
          /\ last_call' = ScenarioCall("subscribe", last_call.sockfd, last_call.id, p,
                                       last_call.threw \/ r.threw, NoSock, <<>>, {})
    /\ UNCHANGED <<matchVars, routerVars, codecVars, serverVars>>

ScenarioDetach ==
    /\ last_call.op = "subscribe"
    /\ subscribers_registry_' =
          disconnect_subscriber(subscribers_registry_, last_call.sockfd)
    /\ last_call' = [last_call EXCEPT !.op = "detach"]
    /\ UNCHANGED <<matchVars, routerVars, codecVars, serverVars>>

ScenarioReattach ==
    /\ last_call.op \in {"detach", "missed"}
    /\ \E d2 \in RegFds :
          LET r == connect_subscriber(subscribers_registry_, d2, last_call.id) IN
          /\ subscribers_registry_' = r.reg
          /\ last_call' = ScenarioCall("reattach", d2, last_call.id, last_call.topic,
                                       last_call.threw \/ r.threw, last_call.sockfd,
                                       last_call.published, last_call.log)
    /\ UNCHANGED <<matchVars, routerVars, codecVars, serverVars>>

\* The sends of the datagram branch of run() for a publication on topic:
\* retrieve_topic_subscribers, then the fan-out loop with the result of each
\* send; one log entry per send
PublicationSends(reg, phase, topic) ==
    LET r == retrieve_topic_subscribers(reg, topic) IN
    IF r.threw \/ r.fds = {} THEN {{}}
    ELSE {LET f == fan_out(reg, r.fds, outcome) IN
          {[phase |-> phase, fd |-> fd,
            result |-> IF fd \in f.sent THEN "ok"
                       ELSE IF fd \in f.closed THEN "closed" ELSE "error"] :
             fd \in f.sent \cup f.closed \cup f.failed} :
          outcome \in [r.fds -> SendResults]}

\* A publication arrives while the subscriber is detached
ScenarioPublishDetached ==
    /\ last_call.op = "detach"
    /\ \E t \in RegTopics :
          \E sends \in PublicationSends(subscribers_registry_, "detached", t) :
             last_call' = [last_call EXCEPT !.op = "missed",
                                            !.published = Append(@, t),
                                            !.log = @ \cup sends]
    /\ UNCHANGED <<subscribers_registry_, matchVars, routerVars, codecVars, serverVars>>

\* A publication arrives after the subscriber is attached again
ScenarioPublishReattached ==
    /\ last_call.op = "reattach"
    /\ \E t \in RegTopics :
          \E sends \in PublicationSends(subscribers_registry_, "reattached", t) :
             last_call' = [last_call EXCEPT !.op = "published",
                                            !.published = Append(@, t),
                                            !.log = @ \cup sends]
    /\ UNCHANGED <<subscribers_registry_, matchVars, routerVars, codecVars, serverVars>>

(***************************************************************************)
(* Part V: the steps of run() that serve subscriber connections, each      *)
(* taken on its own: the accept branch, handle_tcp_request(i) with its     *)
(* scope guard, and the catch of TcpConnectionClosed.  In run() as built   *)
(* the accept branch tests a value-initialised entry and never runs; here  *)
(* the steps are applied directly, to the server the constructor leaves.   *)
(***************************************************************************)
MaxClients == 2

\* Index (from 0) of the first entry after the six the constructor leaves
FirstClientIndex == 6

ClientIndices == FirstClientIndex..(Len(poll_fds_) - 1)

\* The requests a subscriber sends: CONNECT with id "sa" or "sc", SUBSCRIBE
\* and UNSUBSCRIBE with topic "a", "*" or the empty text
ClientRequests ==
    {[kind |-> REQUEST, type |-> CONNECT, text |-> id] : id \in {<<115, 97>>, <<115, 99>>}}
       \cup {[kind |-> REQUEST, type |-> t, text |-> topic] :
                t \in {SUBSCRIBE, UNSUBSCRIBE}, topic \in {<<97>>, <<42>>, <<>>}}

\* accept() succeeds and register_pollfd(client_fd, POLLIN) runs
AcceptClient ==
    /\ pc = "poll"
    /\ Len(poll_fds_) < FirstClientIndex + MaxClients
    /\ LET client_fd == accept_fd(poll_fds_, kernel) IN
       /\ poll_fds_' = register_pollfd(poll_fds_, client_fd, {POLLIN})
       /\ kernel' = [kernel EXCEPT !.closed = @ \ {client_fd}]
       /\ ev' = Event("accepted", client_fd, "")
       /\ last_call' = [NoCall EXCEPT !.op = "accept", !.sockfd = client_fd]
    /\ UNCHANGED <<subscribers_registry_, pc, idx, stopped, pending,
                   matchVars, routerVars, codecVars>>

\* handle_tcp_request(i) for a request fetched from poll_fds_[i]: the switch,
\* then disconnect_client(i) by the scope guard unless it was dismissed
HandleClientRequest ==
    /\ pc = "poll"
    /\ \E i \in ClientIndices, request \in ClientRequests :
          LET sockfd == PF(i).fd
              h == handle_tcp_request(subscribers_registry_, sockfd, request)
              gone == disconnect_client(h.reg, poll_fds_, kernel, i)
          IN
          /\ subscribers_registry_' = IF h.dismissed THEN h.reg ELSE gone.reg
          /\ poll_fds_' = IF h.dismissed THEN poll_fds_ ELSE gone.fds
          /\ kernel' = IF h.dismissed THEN kernel ELSE gone.kernel
          /\ ev' = Event("request", sockfd, h.why)
          /\ last_call' = [op |-> IF request.type = CONNECT
                                  THEN "connect_request" ELSE "topic_request",
                           sockfd |-> sockfd,
                           id |-> IF request.type = CONNECT
                                  THEN to_chars(request.text) ELSE <<>>,
                           topic |-> IF request.type = CONNECT
                                     THEN <<>> ELSE to_chars(request.text),
                           threw |-> ~h.dismissed]
    /\ UNCHANGED <<pc, idx, stopped, pending, matchVars, routerVars, codecVars>>

\* fetch_tcp_request throws TcpConnectionClosed for poll_fds_[i]: the peer
\* closed, and the catch clause calls disconnect_client(i)
ClientCloses ==
    /\ pc = "poll"
    /\ \E i \in ClientIndices :
          LET gone == disconnect_client(subscribers_registry_, poll_fds_, kernel, i) IN
          /\ subscribers_registry_' = gone.reg
          /\ poll_fds_' = gone.fds
          /\ kernel' = gone.kernel
          /\ ev' = Event("fetch_failed", PF(i).fd, "closed")
          /\ last_call' = [NoCall EXCEPT !.op = "closed", !.sockfd = PF(i).fd]
    /\ UNCHANGED <<pc, idx, stopped, pending, matchVars, routerVars, codecVars>>

(***************************************************************************)
(* Part VI: BinaryTrie<Key, Value>                                         *)
(* (src/dataplane-router/binary_trie.hpp), the routing table's index.  A   *)
(* node is named by the bits that lead to it from the root; root_ maps     *)
(* every node the trie owns to its fields, and children_[index] of node s  *)
(* is set exactly when Append(s, index) is a node.                         *)
(***************************************************************************)

\* the key width in bits, sizeof(Key) * 8, for a Key of two bits
BITS == 2
MaxEntries == 2

Keys == 0..(2^BITS - 1)
PrefixLens == 0..BITS
\* the values stored: two that differ
Values == {1, 2}

\* std::nullopt, and a Node* that points at no node
NullOpt == 0
Nullptr == <<-1>>

\* path & mask ? 1 : 0, where mask is 1 << (BITS - 1) shifted right i times;
\* the mask is 0 once every bit has been shifted out
index_at(path, i) == IF i < BITS THEN (path \div 2^(BITS - 1 - i)) % 2 ELSE 0

\* the node reached from the root along the first n bits of path
walk(path, n) == [i \in 1..n |-> index_at(path, i - 1)]

\* a default-constructed Node, and the trie that owns only its root
Node == [value_ |-> NullOpt, is_end_of_key_ |-> FALSE]
EmptyTrie == [s \in {<<>>} |-> Node]

has_child(t, s, index) == Append(s, index) \in DOMAIN t

IsNodePrefix(s, u) == Len(s) <= Len(u) /\ SubSeq(u, 1, Len(s)) = s

\* insert(path, prefix_len, value): create the missing nodes of the walk,
\* then store the value in the last one and mark it
insert(t, path, prefix_len, value) ==
    LET made == [s \in DOMAIN t \cup {walk(path, i) : i \in 0..prefix_len} |->
                    IF s \in DOMAIN t THEN t[s] ELSE Node]
    IN  [made EXCEPT ![walk(path, prefix_len)] =
                        [value_ |-> value, is_end_of_key_ |-> TRUE]]

\* the loop of longest_prefix_match from iteration i on: cur is the node the
\* walk stands on, result the last marked node it stepped onto
RECURSIVE lpm_loop(_, _, _, _, _)
lpm_loop(t, path, i, cur, result) ==
    IF i >= BITS THEN result
    ELSE LET next == Append(cur, index_at(path, i)) IN
         IF next \notin DOMAIN t THEN result
         ELSE lpm_loop(t, path, i + 1, next,
                       IF t[next].is_end_of_key_ THEN next ELSE result)

longest_prefix_match(t, path) ==
    LET result == lpm_loop(t, path, 0, <<>>, Nullptr)
    IN  IF result # Nullptr THEN t[result].value_ ELSE NullOpt

\* parent->children_[index].reset(): the child and all it owns are destroyed
unlink(t, child) == [s \in {u \in DOMAIN t : ~IsNodePrefix(child, u)} |-> t[s]]

\* the second loop of erase from iteration i on.  path_buffer_[i] is the
\* node at depth i of the walk; reading a node that was destroyed is
\* undefined behaviour
RECURSIVE erase_unwind(_, _, _, _)
erase_unwind(t, path, prefix_len, i) ==
    IF i >= prefix_len THEN [root |-> t, ub |-> FALSE]
    ELSE LET parent == walk(path, i)
             child == walk(path, i + 1)
         IN  IF parent \notin DOMAIN t \/ child \notin DOMAIN t
             THEN [root |-> t, ub |-> TRUE]
             ELSE IF \/ t[child].is_end_of_key_
                     \/ has_child(t, child, 0)
                     \/ has_child(t, child, 1)
                  THEN [root |-> t, ub |-> FALSE]
                  ELSE erase_unwind(unlink(t, child), path, prefix_len, i + 1)

\* an erase that reports success and leaves the terminal node as it was
erase_keeping(t, path, prefix_len) ==
    LET terminal == walk(path, prefix_len) IN
    [root |-> t,
     ret |-> terminal \in DOMAIN t /\ t[terminal].is_end_of_key_,
     ub |-> FALSE]

\* erase(path, prefix_len)
erase(t, path, prefix_len) ==
    LET terminal == walk(path, prefix_len) IN
    IF \E i \in 1..prefix_len : walk(path, i) \notin DOMAIN t
    THEN [root |-> t, ret |-> FALSE, ub |-> FALSE]
    ELSE IF ~t[terminal].is_end_of_key_
    THEN [root |-> t, ret |-> FALSE, ub |-> FALSE]
    ELSE LET cleared == [t EXCEPT ![terminal] = Node]
             unwound == erase_unwind(cleared, path, prefix_len, 0)
         IN  [root |-> unwound.root, ret |-> TRUE, ub |-> unwound.ub]

\* the keys whose lookup differs between two tries
LookupsChanged(t, u) ==
    {k \in Keys : longest_prefix_match(t, k) # longest_prefix_match(u, k)}

\* what is recorded of a call: its arguments, what it returned (value is the
\* value inserted, found, or held by the erased node before the call),
\* whether route_entries held the entry before, and for an erase the keys
\* whose lookup the call changed
TrieCall(op, path, prefix_len, ret, value, was, changed) ==
    [op |-> op, path |-> path, prefix_len |-> prefix_len, ret |-> ret,
     value |-> value, was |-> was, changed |-> changed]

TrieIdle ==
    /\ root_ = EmptyTrie
    /\ route_entries = {}
    /\ trie_call = TrieCall("none", 0, 0, FALSE, NullOpt, FALSE, {})

\* the entries of route_entries other than the one stored at node s
OtherEntries(s) == {e \in route_entries : e.node # s}

\* insert(path, prefix_len, value) is called
TrieInsert ==
    /\ \E path \in Keys, prefix_len \in PrefixLens, value \in Values :
          LET s == walk(path, prefix_len) IN
          /\ Cardinality(OtherEntries(s)) < MaxEntries
          /\ root_' = insert(root_, path, prefix_len, value)
          /\ route_entries' = OtherEntries(s) \cup {[node |-> s, value |-> value]}
          /\ trie_call' = TrieCall("insert", path, prefix_len, TRUE, value,
                                   OtherEntries(s) # route_entries, {})
    /\ UNCHANGED <<matchVars, registryVars, codecVars, serverVars, arpVars>>

\* erase(path, prefix_len) is called; value records what the terminal node
\* held before the call
TrieErase ==
    /\ \E path \in Keys, prefix_len \in PrefixLens :
          LET s == walk(path, prefix_len)
              erased == erase(root_, path, prefix_len)
          IN  /\ root_' \in (IF erased.ub THEN {root_, erased.root}
                                         ELSE {erased.root})
              /\ route_entries' = OtherEntries(s)
              /\ trie_call' = TrieCall("erase", path, prefix_len, erased.ret,
                                       IF s \in DOMAIN root_
                                       THEN root_[s].value_ ELSE NullOpt,
                                       OtherEntries(s) # route_entries,
                                       LookupsChanged(root_, root_'))
    /\ UNCHANGED <<matchVars, registryVars, codecVars, serverVars, arpVars>>

\* longest_prefix_match(path) is called
TrieLookup ==
    /\ \E path \in Keys :
          LET found == longest_prefix_match(root_, path) IN
          trie_call' = TrieCall("longest_prefix_match", path, BITS,
                                found # NullOpt, found, FALSE, {})
    /\ UNCHANGED <<root_, route_entries, matchVars, registryVars, codecVars,
                   serverVars, arpVars>>

(***************************************************************************)
(* Part VII: ARP resolution in the router (src/dataplane-router/router.cpp *)
(* and arp-table.hpp/.cpp).  A frame is its Ethernet header and a payload  *)
(* that tells frames apart; addresses are small numbers.                   *)
(***************************************************************************)

NumInterfaces == 2
NumHops == 2
MaxPending == 2

ETHERTYPE_ARP == 2054
ETHERTYPE_IP == 2048

Interfaces == 0..(NumInterfaces - 1)
Hops == 1..NumHops

\* what the frames to forward carry: two contents that differ
Payloads == {1, 2}

\* the hardware address of one of the router's interfaces, those a next hop
\* may answer with, the broadcast address, and the address in the header of
\* a frame as it arrives
get_interface_mac(interface) == 100 + interface
HopMacs == {200, 201}
BroadcastMac == 255
OriginMac == 50

Frame(payload, shost, dhost, type) ==
    [payload |-> payload, ethr_shost |-> shost, ethr_dhost |-> dhost,
     ethr_type |-> type]

\* send_to_link(length, frame_data, interface)
send_to_link(sent, frame, interface) ==
    Append(sent, [interface |-> interface, frame |-> frame])

\* the router's ARP state: the two maps of ArpTable, and the link
RouterState(arp, waiting, sent) ==
    [arp_table_ |-> arp, pending_packets_ |-> waiting, link |-> sent]

\* ArpTable::add_entry: try_emplace keeps an entry that is already there
add_entry(arp, ip, mac) ==
    [a \in DOMAIN arp \cup {ip} |-> IF a \in DOMAIN arp THEN arp[a] ELSE mac]

\* a queue that takes the new packet at its head
add_pending_packet_front(waiting, ip, packet) ==
    [a \in DOMAIN waiting \cup {ip} |->
        IF a = ip
        THEN <<packet>> \o (IF a \in DOMAIN waiting THEN waiting[a] ELSE <<>>)
        ELSE waiting[a]]

\* ArpTable::add_pending_packet
add_pending_packet(waiting, ip, packet) ==
    [a \in DOMAIN waiting \cup {ip} |->
        IF a = ip
        THEN Append(IF a \in DOMAIN waiting THEN waiting[a] ELSE <<>>, packet)
        ELSE waiting[a]]

\* a retrieval that hands the queue out and leaves it in the table
retrieve_pending_packets_peek(waiting, ip) ==
    IF ip \in DOMAIN waiting
    THEN [found |-> TRUE, pkts |-> waiting[ip], pending_packets_ |-> waiting]
    ELSE [found |-> FALSE, pkts |-> <<>>, pending_packets_ |-> waiting]

\* ArpTable::retrieve_pending_packets: the queue of ip is extracted
retrieve_pending_packets(waiting, ip) ==
    IF ip \in DOMAIN waiting
    THEN [found |-> TRUE, pkts |-> waiting[ip],
          pending_packets_ |-> [a \in DOMAIN waiting \ {ip} |-> waiting[a]]]
    ELSE [found |-> FALSE, pkts |-> <<>>, pending_packets_ |-> waiting]

\* Router::send_arp_request
send_arp_request(sent, dest_ip, interface) ==
    send_to_link(sent,
                 Frame(dest_ip, get_interface_mac(interface), BroadcastMac,
                       ETHERTYPE_ARP),
                 interface)

\* Router::send_frame
send_frame(r, frame, interface, dest_ip, eth_type) ==
    IF dest_ip \notin DOMAIN r.arp_table_
    THEN RouterState(r.arp_table_,
                     add_pending_packet(r.pending_packets_, dest_ip,
                                        [next_hop_iface |-> interface,
                                         frame |-> frame]),
                     send_arp_request(r.link, dest_ip, interface))
    ELSE RouterState(r.arp_table_, r.pending_packets_,
                     send_to_link(r.link,
                                  Frame(frame.payload,
                                        get_interface_mac(interface),
                                        r.arp_table_[dest_ip], eth_type),
                                  interface))

\* the loop of handle_arp_reply over the retrieved packets, from the i-th on
RECURSIVE send_pending(_, _, _, _)
send_pending(r, pkts, i, sender_ip) ==
    IF i > Len(pkts) THEN r
    ELSE send_pending(send_frame(r, pkts[i].frame, pkts[i].next_hop_iface,
                                 sender_ip, ETHERTYPE_IP),
                      pkts, i + 1, sender_ip)

\* a handle_arp_reply that records the entry and leaves the sender's queue
\* where it is
handle_arp_reply_learning_only(r, sender_ip, sender_mac) ==
    RouterState(add_entry(r.arp_table_, sender_ip, sender_mac),
                r.pending_packets_, r.link)

\* Router::handle_arp_reply
handle_arp_reply(r, sender_ip, sender_mac) ==
    LET learnt == add_entry(r.arp_table_, sender_ip, sender_mac)
        pending_pkts == retrieve_pending_packets(r.pending_packets_, sender_ip)
        stored == RouterState(learnt, pending_pkts.pending_packets_, r.link)
    IN  IF ~pending_pkts.found THEN stored
        ELSE send_pending(stored, pending_pkts.pkts, 1, sender_ip)

ArpCall(op, ip, mac, interface, pkts) ==
    [op |-> op, ip |-> ip, mac |-> mac, interface |-> interface, pkts |-> pkts]

ArpIdle ==
    /\ arp_table_ = [a \in {} |-> 0]
    /\ pending_packets_ = [a \in {} |-> <<>>]
    /\ link = <<>>
    /\ arp_call = ArpCall("none", 0, 0, 0, <<>>)

RouterIdle == TrieIdle /\ ArpIdle

\* the number of frames waiting in pending_packets_
RECURSIVE PendingCount(_)
PendingCount(ips) ==
    IF ips = {} THEN 0
    ELSE LET a == CHOOSE x \in ips : TRUE
         IN  Len(pending_packets_[a]) + PendingCount(ips \ {a})

\* handle_forward_ip_packet found a route: the frame goes to send_frame with
\* the route's next hop and interface
ForwardFrame ==
    /\ PendingCount(DOMAIN pending_packets_) < MaxPending
    /\ \E payload \in Payloads, next_hop_iface \in Interfaces,
          next_hop_ip \in Hops :
          LET frame == Frame(payload, OriginMac, OriginMac, ETHERTYPE_IP)
              r == send_frame(RouterState(arp_table_, pending_packets_, <<>>),
                              frame, next_hop_iface, next_hop_ip, ETHERTYPE_IP)
          IN  /\ arp_table_' = r.arp_table_
              /\ pending_packets_' = r.pending_packets_
              /\ link' = r.link
              /\ arp_call' = ArpCall("send_frame", next_hop_ip, 0,
                                     next_hop_iface, <<>>)
    /\ UNCHANGED <<matchVars, registryVars, codecVars, serverVars, trieVars>>

\* an ARP reply arrives; pkts records the queue the sender had before
HandleArpReply ==
    /\ \E sender_ip \in Hops, sender_mac \in HopMacs :
          LET r == handle_arp_reply(
                       RouterState(arp_table_, pending_packets_, <<>>),
                       sender_ip, sender_mac)
          IN  /\ arp_table_' = r.arp_table_
              /\ pending_packets_' = r.pending_packets_
              /\ link' = r.link
              /\ arp_call' = ArpCall("arp_reply", sender_ip, sender_mac, 0,
                                     IF sender_ip \in DOMAIN pending_packets_
                                     THEN pending_packets_[sender_ip]
                                     ELSE <<>>)
    /\ UNCHANGED <<matchVars, registryVars, codecVars, serverVars, trieVars>>

(***************************************************************************)
(* Part VIII: IPv4 handling in the router (Router::handle_ip_packet and    *)
(* what it calls, src/dataplane-router/router.cpp).  An IPv4 frame is a    *)
(* Frame whose payload is a record of the header fields the router reads   *)
(* or writes, the frame's size in bytes and the ICMP message it carries.   *)
(* The header checksum is computed as checksum() of lib-cpp.cpp computes   *)
(* it, over the 16-bit words of the header that hold these fields.  The    *)
(* trie stores the number of a route, which stands for its next hop and    *)
(* interface.                                                              *)
(***************************************************************************)

ETHER_HDR_SIZE == 14
IP_HDR_SIZE == 20
ICMP_HDR_SIZE == 8

IP_PROTO_ICMP == 1
\* the protocols of the frames that arrive: ICMP and one that is not (UDP)
Protos == {IP_PROTO_ICMP, 17}
IP_DEFAULT_TTL == 64
ICMP_TYPE_ECHO_REPLY == 0
ICMP_CODE_ECHO_REPLY == 0
ICMP_TYPE_UNREACH == 3
ICMP_CODE_UNREACH_NET == 0
ICMP_TYPE_ECHO_REQUEST == 8
ICMP_TYPE_TIME_EXCEEDED == 11
ICMP_CODE_TTL_EXCEEDED == 0

\* the address of one of the router's interfaces, and the host that sends
get_interface_ip(interface) == 10 + interface
Sources == {20}

\* route_table_entry number v: its next hop and its interface
RouteOf(v) == [next_hop |-> v, interface |-> v - 1]

\* the routing tables the router is started with: the entries of a list, in
\* order, as (prefix, mask length, route); the last one is a default route
RouteList == <<[prefix |-> 2, mask_len |-> 1, route |-> 1],
               [prefix |-> 3, mask_len |-> 2, route |-> 2],
               [prefix |-> 0, mask_len |-> 0, route |-> 1]>>

RoutingTables ==
    {picked \in SUBSET (1..Len(RouteList)) : Cardinality(picked) <= MaxEntries}

\* RoutingTable::add_entries over the picked entries of RouteList, from the
\* i-th on
RECURSIVE add_entries(_, _, _)
add_entries(t, picked, i) ==
    IF i > Len(RouteList) THEN t
    ELSE add_entries(IF i \in picked
                     THEN insert(t, RouteList[i].prefix, RouteList[i].mask_len,
                                 RouteList[i].route)
                     ELSE t,
                     picked, i + 1)

\* RoutingTable::lookup (both sides of the trie take the address in host
\* order, which is how addresses are written here)
rtable_lookup(t, dest_ip) == longest_prefix_match(t, dest_ip)

\* an ICMP header with what it quotes, and "no ICMP message"
Icmp(mtype, mcode, quoted) == [mtype |-> mtype, mcode |-> mcode, quoted |-> quoted]
NoIcmp == Icmp(-1, -1, <<>>)

IpPacket(frame_size, source_addr, dest_addr, ttl, proto, checksum, icmp) ==
    [frame_size |-> frame_size, source_addr |-> source_addr,
     dest_addr |-> dest_addr, ttl |-> ttl, proto |-> proto,
     checksum |-> checksum, icmp |-> icmp]

\* the 16-bit words of the IPv4 header as ntohs reads them: version, header
\* length and service type (0x4500); TTL and protocol; the checksum; source
\* and destination address (their upper words are zero)
IpHeaderWords(p) ==
    <<17664, p.ttl * 256 + p.proto, p.checksum, 0, p.source_addr, 0, p.dest_addr>>

RECURSIVE SumWords(_, _)
SumWords(words, i) ==
    IF i > Len(words) THEN 0 ELSE words[i] + SumWords(words, i + 1)

\* checksum(data, length) of lib-cpp.cpp: the words are added up, the carry
\* is folded in twice, and the complement is cut to 16 bits
checksum(words) ==
    LET sum == SumWords(words, 1)
        folded == (sum \div 65536) + (sum % 65536)
        twice == folded + (folded \div 65536)
    IN  65535 - (twice % 65536)

\* checksum(ip_hdr, IP_HDR_SIZE) with the checksum field set to 0
ip_checksum(p) == checksum(IpHeaderWords([p EXCEPT !.checksum = 0]))

checksum_valid(p) == checksum(IpHeaderWords(p)) = 0

recompute_checksum(p) == [p EXCEPT !.checksum = ip_checksum(p)]

\* Router::send_icmp_error: the message is built in the frame itself when
\* the frame is large enough, else in a fresh zeroed buffer
send_icmp_error(r, frame, interface, type, code) ==
    LET icmp_frame_size == ETHER_HDR_SIZE + 2 * IP_HDR_SIZE + ICMP_HDR_SIZE + 8
        old == frame.payload
        dest_ip == old.source_addr
        quoted == <<old.source_addr, old.dest_addr, old.ttl, old.proto,
                    old.checksum>>
        ip_hdr == recompute_checksum(
                      IpPacket(icmp_frame_size, get_interface_ip(interface),
                               dest_ip, IP_DEFAULT_TTL, IP_PROTO_ICMP, 0,
                               Icmp(type, code, quoted)))
        icmp_frame == IF old.frame_size < icmp_frame_size
                      THEN Frame(ip_hdr, 0, 0, 0)
                      ELSE [frame EXCEPT !.payload = ip_hdr]
    IN  send_frame(r, icmp_frame, interface, dest_ip, ETHERTYPE_IP)

\* Router::send_icmp_echo_reply
send_icmp_echo_reply(r, frame, interface) ==
    LET old == frame.payload
        ip_hdr == recompute_checksum(
                      [old EXCEPT !.source_addr = old.dest_addr,
                                  !.dest_addr = old.source_addr,
                                  !.ttl = IP_DEFAULT_TTL,
                                  !.icmp = Icmp(ICMP_TYPE_ECHO_REPLY,
                                                ICMP_CODE_ECHO_REPLY,
                                                old.icmp.quoted)])
    IN  send_frame(r, [frame EXCEPT !.payload = ip_hdr], interface,
                   ip_hdr.dest_addr, ETHERTYPE_IP)

\* Router::handle_icmp_packet
handle_icmp_packet(r, frame, interface) ==
    IF frame.payload.frame_size < ETHER_HDR_SIZE + IP_HDR_SIZE + ICMP_HDR_SIZE
    THEN r
    ELSE IF frame.payload.icmp.mtype = ICMP_TYPE_ECHO_REQUEST
    THEN send_icmp_echo_reply(r, frame, interface)
    ELSE r

\* Router::handle_local_ip_packet
handle_local_ip_packet(r, frame, interface) ==
    IF frame.payload.proto = IP_PROTO_ICMP
    THEN handle_icmp_packet(r, frame, interface)
    ELSE r

\* a forwarding step that drops a frame with no route without an answer
handle_forward_ip_packet_dropping(r, t, frame, interface) ==
    LET next_hop == rtable_lookup(t, frame.payload.dest_addr) IN
    IF next_hop = NullOpt
    THEN r
    ELSE send_frame(r, frame, RouteOf(next_hop).interface,
                    RouteOf(next_hop).next_hop, ETHERTYPE_IP)

\* Router::handle_forward_ip_packet with get_next_hop
handle_forward_ip_packet(r, t, frame, interface) ==
    LET next_hop == rtable_lookup(t, frame.payload.dest_addr) IN
    IF next_hop = NullOpt
    THEN send_icmp_error(r, frame, interface, ICMP_TYPE_UNREACH,
                         ICMP_CODE_UNREACH_NET)
    ELSE send_frame(r, frame, RouteOf(next_hop).interface,
                    RouteOf(next_hop).next_hop, ETHERTYPE_IP)

\* a test that lets a frame with TTL 1 through
ttl_expired_at_zero(ttl, for_this_router) == ttl <= 0 /\ ~for_this_router

\* the test of handle_ip_packet that stops a frame whose TTL has run out
ttl_expired(ttl, for_this_router) == ttl <= 1 /\ ~for_this_router

\* a handle_ip_packet without the test of the checksum
handle_ip_packet_unchecked(r, t, frame, interface) ==
    LET p == frame.payload
        for_this_router == p.dest_addr = get_interface_ip(interface)
    IN  IF p.frame_size < ETHER_HDR_SIZE + IP_HDR_SIZE THEN r
        ELSE IF ttl_expired(p.ttl, for_this_router)
        THEN send_icmp_error(r, frame, interface, ICMP_TYPE_TIME_EXCEEDED,
                             ICMP_CODE_TTL_EXCEEDED)
        ELSE IF for_this_router THEN handle_local_ip_packet(r, frame, interface)
        ELSE handle_forward_ip_packet(
                 r, t,
                 [frame EXCEPT !.payload =
                     recompute_checksum([p EXCEPT !.ttl = p.ttl - 1])],
                 interface)

\* a handle_ip_packet that decrements the TTL and leaves the checksum as it
\* arrived
handle_ip_packet_stale_checksum(r, t, frame, interface) ==
    LET p == frame.payload
        for_this_router == p.dest_addr = get_interface_ip(interface)
    IN  IF p.frame_size < ETHER_HDR_SIZE + IP_HDR_SIZE THEN r
        ELSE IF ttl_expired(p.ttl, for_this_router)
        THEN send_icmp_error(r, frame, interface, ICMP_TYPE_TIME_EXCEEDED,
                             ICMP_CODE_TTL_EXCEEDED)
        ELSE IF ~checksum_valid(p) THEN r
        ELSE IF for_this_router THEN handle_local_ip_packet(r, frame, interface)
        ELSE handle_forward_ip_packet(
                 r, t, [frame EXCEPT !.payload = [p EXCEPT !.ttl = p.ttl - 1]],
                 interface)

\* Router::handle_ip_packet
handle_ip_packet(r, t, frame, interface) ==
    LET p == frame.payload
        for_this_router == p.dest_addr = get_interface_ip(interface)
    IN  IF p.frame_size < ETHER_HDR_SIZE + IP_HDR_SIZE THEN r
        ELSE IF ttl_expired(p.ttl, for_this_router)
        THEN send_icmp_error(r, frame, interface, ICMP_TYPE_TIME_EXCEEDED,
                             ICMP_CODE_TTL_EXCEEDED)
        ELSE IF ~checksum_valid(p) THEN r
        ELSE IF for_this_router THEN handle_local_ip_packet(r, frame, interface)
        ELSE handle_forward_ip_packet(
                 r, t,
                 [frame EXCEPT !.payload =
                     recompute_checksum([p EXCEPT !.ttl = p.ttl - 1])],
                 interface)

\* the IPv4 frames that may arrive on an interface: too short to hold an
\* IPv4 header, too short to be turned into an ICMP error in place, or long
\* enough; with a checksum that verifies or not; for the router or not
FrameSizes == {20, 60, 98}
Ttls == {0, 1, 2, 64}
IcmpKinds == {Icmp(ICMP_TYPE_ECHO_REQUEST, 0, <<>>), NoIcmp}

IpFrames(interface) ==
    {Frame(IpPacket(size, src, dst, ttl, proto,
                    IF valid
                    THEN ip_checksum(IpPacket(size, src, dst, ttl, proto, 0, icmp))
                    ELSE (ip_checksum(IpPacket(size, src, dst, ttl, proto, 0, icmp)) + 1)
                            % 65536,
                    icmp),
           OriginMac, get_interface_mac(interface), ETHERTYPE_IP) :
        size \in FrameSizes, src \in Sources,
        dst \in Keys \cup {get_interface_ip(interface)}, ttl \in Ttls,
        proto \in Protos, valid \in BOOLEAN,
        icmp \in IcmpKinds}

\* for each interface, the frames among them that differ in something the
\* handler looks at
IpFramesSeen ==
    [interface \in Interfaces |->
        {f \in IpFrames(interface) :
            /\ f.payload.frame_size < ETHER_HDR_SIZE + IP_HDR_SIZE
                  => (f.payload.ttl = 2 /\ f.payload.source_addr = 20
                      /\ f.payload.dest_addr = 0 /\ checksum_valid(f.payload))
            /\ (f.payload.icmp # NoIcmp) = (f.payload.proto = IP_PROTO_ICMP)
            /\ f.payload.proto = IP_PROTO_ICMP
                  => f.payload.dest_addr = get_interface_ip(interface)}]

\* the router is constructed and add_rtable_entries has run
RouterStarted ==
    /\ \E picked \in RoutingTables :
          /\ root_ = add_entries(EmptyTrie, picked, 1)
          /\ route_entries =
                {[node |-> walk(RouteList[i].prefix, RouteList[i].mask_len),
                  value |-> RouteList[i].route] : i \in picked}
    /\ trie_call = TrieCall("none", 0, 0, FALSE, NullOpt, FALSE, {})
    /\ ArpIdle

\* the main loop is back in recv_from_any_link: what the last handler sent
\* has left
RecvFromAnyLink ==
    /\ arp_call.op # "none"
    /\ link' = <<>>
    /\ arp_call' = ArpCall("none", 0, 0, 0, <<>>)
    /\ UNCHANGED <<arp_table_, pending_packets_, matchVars, registryVars,
                   codecVars, serverVars, trieVars>>

\* handle_frame is given an IPv4 frame; pkts records the frame.  Frames
\* arrive one at a time: the next one comes when the router is back in
\* recv_from_any_link and no frame is waiting for an ARP reply
HandleIpPacket ==
    /\ arp_call.op = "none"
    /\ DOMAIN pending_packets_ = {}
    /\ \E interface \in Interfaces :
          \E frame \in IpFramesSeen[interface] :
             LET r == handle_ip_packet(
                          RouterState(arp_table_, pending_packets_, <<>>),
                          root_, frame, interface)
             IN  /\ arp_table_' = r.arp_table_
                 /\ pending_packets_' = r.pending_packets_
                 /\ link' = r.link
                 /\ arp_call' = ArpCall("handle_ip_packet",
                                        frame.payload.dest_addr, 0, interface,
                                        <<frame>>)
    /\ UNCHANGED <<matchVars, registryVars, codecVars, serverVars, trieVars>>

\* the ARP reply to a request the router has sent arrives: from a next hop
\* or from the sending host, for which a frame is waiting
ArpReplyArrives ==
    /\ arp_call.op = "none"
    /\ \E sender_ip \in DOMAIN pending_packets_ :
          \E sender_mac \in (IF sender_ip \in Hops THEN HopMacs
                                                    ELSE {OriginMac}) :
             LET r == handle_arp_reply(
                          RouterState(arp_table_, pending_packets_, <<>>),
                          sender_ip, sender_mac)
             IN  /\ arp_table_' = r.arp_table_
                 /\ pending_packets_' = r.pending_packets_
                 /\ link' = r.link
                 /\ arp_call' = ArpCall("arp_reply", sender_ip, sender_mac, 0,
                                        pending_packets_[sender_ip])
    /\ UNCHANGED <<matchVars, registryVars, codecVars, serverVars, trieVars>>

(***************************************************************************)
(* Part IX: publications (server.cpp, udp_proto.cpp).  The datagram branch  *)
(* of run() taken one datagram at a time: recvfrom in handle_udp_msg takes  *)
(* the oldest datagram the kernel holds, the response is prepared from it   *)
(* and sent once to every descriptor retrieve_topic_subscribers returned.   *)
(* Here sent_msgs holds, for each subscriber descriptor, the responses      *)
(* whose send_tcp_message went through, in order.                           *)
(***************************************************************************)
MaxPublications == 3

\* ntoh on the bytes memcpy has put into a uint16_t / uint32_t
ntoh16(bytes) == bytes[1] * 256 + bytes[2]
ntoh32(bytes) ==
    bytes[1] * 16777216 + bytes[2] * 65536 + bytes[3] * 256 + bytes[4]

\* UdpPayloadInt / ShortReal / Float / String ::deserialize on a buffer that
\* UdpMessage::deserialize has found long enough
UdpPayload_deserialize(ptype, buffer) ==
    CASE ptype = PT_INT ->
            [sign |-> buffer[1], value |-> ntoh32(SubSeq(buffer, 2, 5))]
      [] ptype = PT_SHORT_REAL -> [value |-> ntoh16(SubSeq(buffer, 1, 2))]
      [] ptype = PT_FLOAT ->
            [sign |-> buffer[1], value |-> ntoh32(SubSeq(buffer, 2, 5)),
             exponent |-> buffer[6]]
      [] ptype = PT_STRING ->
            [value |-> SubSeq(buffer, 1, strnlen(buffer, Len(buffer), 0))]

\* Server::prepare_tcp_response: the response for the datagram that
\* handle_udp_msg has deserialized into udp_msg_, sent from udp_sender_addr
prepare_tcp_response(udp_sender_addr, udp_msg) ==
    [kind |-> RESPONSE,
     udp_client_ip |-> udp_sender_addr.sin_addr,
     udp_client_port |-> udp_sender_addr.sin_port,
     topic |-> udp_msg.topic,
     ptype |-> udp_msg.ptype,
     payload |-> UdpPayload_deserialize(udp_msg.ptype, udp_msg.payload)]

\* __builtin_bswap16
bswap16(value) == (value % 256) * 256 + ((value \div 256) % 256)

\* the sockaddr_in recvfrom fills for a publisher that sends from port: the
\* address bytes as they arrived and sin_port in network byte order, which a
\* little-endian host reads as the byte-swapped number
SockaddrIn(port) == [sin_addr |-> CodecIp, sin_port |-> bswap16(port)]

PublisherAddr == SockaddrIn(4660)

\* a datagram as a publisher builds it: the topic in a field of
\* UDP_MSG_TOPIC_SIZE bytes padded with zeros, the payload kind, the payload
UdpDatagram(topic, ptype, payload) ==
    [k \in 1..UDP_MSG_TOPIC_SIZE |-> IF k <= Len(topic) THEN topic[k] ELSE 0]
        \o <<ptype>> \o payload

\* the n-th datagram that arrives: a STRING publication on "a" or on "a/c"
\* whose text is the digit n, or a datagram of an unknown payload kind
NthDatagrams(n) ==
    {UdpDatagram(<<97>>, PT_STRING, <<48 + n>>),
     UdpDatagram(<<97, 47, 99>>, PT_STRING, <<48 + n>>),
     UdpDatagram(<<97>>, 9, <<48 + n>>)}

\* which datagram a response was made from
ArrivalOf(response) == response.payload.value[1] - 48

\* the descriptors of the two subscribers
PublishFds == {FirstClientFd, FirstClientFd + 1}

\* the patterns the subscriber attached on sockfd holds that match topic
MatchingHeld(reg, sockfd, topic) ==
    {p \in reg.id_subscribers_[reg.sock_subscribers_[sockfd]].topics :
        matches(p, topic)}

\* a fan-out loop that sends once for every pattern of the recipient that
\* matches
send_per_pattern(reg, sockfd, topic, message) ==
    [k \in 1..Cardinality(MatchingHeld(reg, sockfd, topic)) |-> message]

\* the body of the fan-out loop for one element of the set of descriptors,
\* the send going through: one send_tcp_message
send_once(reg, sockfd, topic, message) == <<message>>

\* a handle_udp_msg that takes the newest datagram the kernel holds
handle_udp_msg_newest(udp_q) ==
    [datagram |-> udp_q[Len(udp_q)],
     udp_q |-> SubSeq(udp_q, 1, Len(udp_q) - 1),
     udp_msg |-> UdpMessage_deserialize(udp_q[Len(udp_q)])]

\* Server::handle_udp_msg: recvfrom takes the oldest datagram off the
\* socket's queue, UdpMessage::deserialize fills udp_msg_
handle_udp_msg(udp_q) ==
    [datagram |-> Head(udp_q),
     udp_q |-> Tail(udp_q),
     udp_msg |-> UdpMessage_deserialize(Head(udp_q))]

\* the broker is up and two subscribers are attached; nothing has been
\* subscribed to or published
PublishStarted ==
    /\ subscribers_registry_ =
          connect_subscriber(
              connect_subscriber(EmptyRegistry, FirstClientFd, "sa").reg,
              FirstClientFd + 1, "sb").reg
    /\ last_call = NoCall
    /\ tcp_buffer_ = <<>>
    /\ wire = <<>>
    /\ sent_msgs = [fd \in PublishFds |-> <<>>]
    /\ ServerIdle

\* the patterns a subscriber asks for: the first any of RegPatterns, the
\* second a or *
Asked ==
    [sockfd \in PublishFds |->
        IF sockfd = FirstClientFd THEN RegPatterns ELSE {<<A>>, <<Star>>}]

\* a subscriber's SUBSCRIBE request is served: subscribe_to_topic
SubscriberSubscribes ==
    /\ \E sockfd \in PublishFds : \E topic \in Asked[sockfd] :
          subscribers_registry_' =
              subscribe_to_topic(subscribers_registry_, sockfd, topic).reg
    /\ UNCHANGED <<last_call, codecVars, serverVars, matchVars, routerVars>>

\* a publisher's datagram reaches the datagram socket
PublisherSends ==
    /\ kernel.arrived < MaxPublications
    /\ \E datagram \in NthDatagrams(kernel.arrived + 1) :
          kernel' = [kernel EXCEPT !.udp_q = Append(@, datagram),
                                   !.arrived = @ + 1]
    /\ UNCHANGED <<poll_fds_, pc, idx, stopped, pending, ev, tcp_buffer_, wire,
                   sent_msgs, matchVars, registryVars, routerVars>>

\* the datagram branch of run() for the oldest datagram: handle_udp_msg,
\* from_string, retrieve_topic_subscribers, prepare_tcp_response and the
\* fan-out loop, each send ending in one of SendResults
HandleUdpMsg ==
    /\ kernel.udp_q # <<>>
    /\ LET got == handle_udp_msg(kernel.udp_q)
           m == got.udp_msg
       IN  /\ kernel' = [kernel EXCEPT !.udp_q = got.udp_q]
           /\ \E e \in UdpBranchEvents(subscribers_registry_, got.datagram) :
                 /\ ev' = e
                 /\ sent_msgs' =
                       [fd \in PublishFds |->
                           IF fd \in e.sent
                           THEN sent_msgs[fd]
                                   \o send_once(
                                          subscribers_registry_, fd,
                                          from_string(to_chars(m.topic)).tokens,
                                          prepare_tcp_response(PublisherAddr, m))
                           ELSE sent_msgs[fd]]
    /\ UNCHANGED <<poll_fds_, pc, idx, stopped, pending, tcp_buffer_, wire,
                   matchVars, registryVars, routerVars>>

(***************************************************************************)
(* One publication from the datagram to the bytes on a subscriber's        *)
(* stream: handle_udp_msg, prepare_tcp_response, send_tcp_message.         *)
(***************************************************************************)
\* the datagrams relayed: every payload kind on three topics; a STRING may
\* hold a NUL or end without one
RelayPayloads ==
    {<<PT_INT, <<0, 0, 0, 1, 2>> >>, <<PT_INT, <<1, 127, 255, 0, 1>> >>,
     <<PT_SHORT_REAL, <<2, 1>> >>, <<PT_SHORT_REAL, <<255, 255>> >>,
     <<PT_FLOAT, <<0, 0, 1, 2, 3, 2>> >>, <<PT_FLOAT, <<1, 0, 0, 0, 7, 0>> >>,
     <<PT_STRING, <<104, 105>> >>, <<PT_STRING, <<104, 0, 105>> >>,
     <<PT_STRING, <<104, 105, 0>> >>}

RelayDatagrams ==
    {UdpDatagram(topic, pl[1], pl[2]) :
        topic \in {<<97>>, <<97, 47, 99>>, <<99>>}, pl \in RelayPayloads}

PublisherPorts == {80, 443, 4660, 65535}

\* a datagram waits on the datagram socket
RelayStarted ==
    /\ tcp_buffer_ = <<>>
    /\ wire = <<>>
    /\ sent_msgs = <<>>
    /\ poll_fds_ = <<>>
    /\ pc = "off"
    /\ idx = 0
    /\ stopped = FALSE
    /\ \E datagram \in RelayDatagrams :
          kernel = [NoKernel EXCEPT !.udp_q = <<datagram>>, !.arrived = 1]
    /\ pending = NoPending
    /\ ev = NoEvent

\* the datagram is received from a publisher's port, turned into a response
\* and sent to one subscriber
RelayPublication ==
    /\ kernel.udp_q # <<>>
    /\ \E port \in PublisherPorts :
          LET got == handle_udp_msg(kernel.udp_q) IN
          /\ got.udp_msg.ok
          /\ kernel' = [kernel EXCEPT !.udp_q = got.udp_q]
          /\ send_tcp_message(prepare_tcp_response(SockaddrIn(port), got.udp_msg))
          /\ ev' = [kind |-> "datagram", fd |-> udp_fd_, why |-> "relayed",
                    sent |-> {FirstClientFd}, closed |-> {}, failed |-> {},
                    port |-> port, datagram |-> got.datagram]
    /\ UNCHANGED <<poll_fds_, pc, idx, stopped, pending, matchVars,
                   registryVars, routerVars>>

(***************************************************************************)
(* Part X: byte order (src/common/util.hpp of the broker, util.hpp of the   *)
(* router) on a little-endian host.  An unsigned value of n bytes is the    *)
(* sequence of its n bytes, most significant first.                         *)
(***************************************************************************)
\* the conversion of a value to an unsigned type of size bytes: the low
\* bytes, or zeros in front
ConvertTo(size, value) ==
    [k \in 1..size |->
        IF k + Len(value) - size >= 1 THEN value[k + Len(value) - size] ELSE 0]

\* __builtin_bswap16 / 32 / 64: the argument converted to the builtin's
\* type, its bytes in reverse order
builtin_bswap(size, value) ==
    [k \in 1..size |-> ConvertTo(size, value)[size + 1 - k]]

\* what the preprocessor sees on a little-endian host: __BYTE_ORDER__ is
\* 1234; __BIG_ENDIAN is 4321 when <endian.h> has been included and counts
\* as 0 when it has not
BYTE_ORDER == 1234
BigEndianMacro == {0, 4321}

\* an hton whose 8-byte case calls __builtin_bswap32
hton_narrow(value, big_endian) ==
    IF BYTE_ORDER = big_endian THEN value
    ELSE CASE Len(value) = 1 -> value
           [] Len(value) = 2 -> ConvertTo(2, builtin_bswap(2, value))
           [] Len(value) = 4 -> ConvertTo(4, builtin_bswap(4, value))
           [] Len(value) = 8 -> ConvertTo(8, builtin_bswap(4, value))

\* hton of the broker; ntoh returns hton(value)
hton(value, big_endian) ==
    IF BYTE_ORDER = big_endian THEN value
    ELSE CASE Len(value) = 1 -> value
           [] Len(value) = 2 -> ConvertTo(2, builtin_bswap(2, value))
           [] Len(value) = 4 -> ConvertTo(4, builtin_bswap(4, value))
           [] Len(value) = 8 -> ConvertTo(8, builtin_bswap(8, value))

\* host_to_network_order of the router, std::endian::native being little;
\* network_to_host_order returns host_to_network_order(value)
host_to_network_order(value) ==
    CASE Len(value) = 1 -> value
      [] Len(value) = 2 -> builtin_bswap(2, value)
      [] Len(value) = 4 -> builtin_bswap(4, value)
      [] Len(value) = 8 -> builtin_bswap(8, value)

\* the values converted: every value of 1, 2, 4 or 8 bytes whose bytes are
\* 0x00, 0x12 or 0xF0, and the values of the router's tests
UnsignedValues ==
    UNION {[1..size -> {0, 18, 240}] : size \in {1, 2, 4, 8}}
       \cup {<<18, 52>>, <<18, 52, 86, 120>>,
              <<18, 52, 86, 120, 154, 188, 222, 240>>}

\* a value is about to be converted
EndianEnter ==
    /\ m_this \in UnsignedValues
    /\ m_other = <<>>
    /\ positions = <<>>
    /\ m_result = "host"

\* hton(value), in a build with or without <endian.h>
Hton ==
    /\ m_result = "host"
    /\ \E big_endian \in BigEndianMacro :
          m_other' = hton(m_this, big_endian)
    /\ m_result' = "hton"
    /\ UNCHANGED <<m_this, positions, registryVars, codecVars, serverVars,
                   routerVars>>

\* ntoh(hton(value))
Ntoh ==
    /\ m_result = "hton"
    /\ \E big_endian \in BigEndianMacro :
          m_other' = hton(m_other, big_endian)
    /\ m_result' = "ntoh"
    /\ UNCHANGED <<m_this, positions, registryVars, codecVars, serverVars,
                   routerVars>>

\* host_to_network_order(value)
HostToNetworkOrder ==
    /\ m_result = "host"
    /\ m_other' = host_to_network_order(m_this)
    /\ m_result' = "host_to_network_order"
    /\ UNCHANGED <<m_this, positions, registryVars, codecVars, serverVars,
                   routerVars>>

\* network_to_host_order(host_to_network_order(value))
NetworkToHostOrder ==
    /\ m_result = "host_to_network_order"
    /\ m_other' = host_to_network_order(m_other)
    /\ m_result' = "network_to_host_order"
    /\ UNCHANGED <<m_this, positions, registryVars, codecVars, serverVars,
                   routerVars>>

(***************************************************************************)
(* Specification of Part I: every call matches(pattern, topic) within the  *)
(* bounds, run one loop iteration at a time.                               *)
(***************************************************************************)
InitMatch == RouterIdle /\ MatchEnter /\ RegistryIdle /\ CodecIdle /\ ServerIdle

NextMatch == MatchLoop

SpecMatch == InitMatch /\ [][NextMatch]_vars

\* matches() is straight-line code on one thread: while the call has not
\* returned, its next loop iteration is taken
SpecMatchRuns == InitMatch /\ [][NextMatch]_vars /\ WF_vars(MatchLoop)

(***************************************************************************)
(* Specification of Part II: every sequence of registry calls.             *)
(***************************************************************************)
InitRegistry == RouterIdle /\ MatchIdle /\ RegistryIdle /\ CodecIdle /\ ServerIdle

NextRegistry ==
    \/ CallConnect
    \/ CallDisconnect
    \/ CallSubscribe
    \/ CallUnsubscribe

SpecRegistry == InitRegistry /\ [][NextRegistry]_vars

(***************************************************************************)
(* Specification of the detach and re-attach call sequence.                *)
(***************************************************************************)
InitReattach ==
    /\ MatchIdle /\ CodecIdle /\ ServerIdle /\ RouterIdle
    /\ subscribers_registry_ \in PriorRegistries
    /\ last_call = NoCall

NextReattach ==
    \/ ScenarioAttach
    \/ ScenarioSubscribe
    \/ ScenarioDetach
    \/ ScenarioReattach
    \/ ScenarioPublishDetached
    \/ ScenarioPublishReattached

SpecReattach == InitReattach /\ [][NextReattach]_vars

(***************************************************************************)
(* Specification of Part III: the bytes one program puts on one stream.    *)
(***************************************************************************)
InitCodec == RouterIdle /\ MatchIdle /\ RegistryIdle /\ CodecIdle /\ ServerIdle

NextCodec ==
    \/ SendTcpMessage
    \/ FetchIntoBuffer

SpecCodec == InitCodec /\ [][NextCodec]_vars

(***************************************************************************)
(* Specification of Part IV: Server::run with its environment.             *)
(***************************************************************************)
InitServer == RouterIdle /\ MatchIdle /\ RegistryIdle /\ CodecIdle /\ ServerConstructed

NextServer ==
    \/ DatagramArrives
    \/ PeerConnects
    \/ StdinReadable
    \/ StdinHangsUp
    \/ Poll
    \/ PollFails
    \/ PermanentBranches
    \/ HandleSubscriber
    \/ LoopEnd
    \/ ResumeRecv

SpecServer == InitServer /\ [][NextServer]_vars

(***************************************************************************)
(* Specification of Part V: subscriber connections served step by step.    *)
(***************************************************************************)
InitClients == RouterIdle /\ MatchIdle /\ RegistryIdle /\ CodecIdle /\ ServerConstructed

NextClients ==
    \/ AcceptClient
    \/ HandleClientRequest
    \/ ClientCloses

SpecClients == InitClients /\ [][NextClients]_vars

(***************************************************************************)
(* Specification of the fan-out block of run() over the registry states    *)
(* the registry calls reach.                                               *)
(***************************************************************************)
InitFanOut == RouterIdle /\ MatchIdle /\ RegistryIdle /\ CodecIdle /\ ServerIdle

NextFanOut ==
    \/ CallConnect
    \/ CallDisconnect
    \/ CallSubscribe
    \/ CallUnsubscribe
    \/ FanOut

SpecFanOut == InitFanOut /\ [][NextFanOut]_vars

(***************************************************************************)
(* Specification of TokenPattern::from_string on every text of up to       *)
(* MaxStrLen characters.                                                   *)
(***************************************************************************)
InitParse == RouterIdle /\ ParseEnter /\ RegistryIdle /\ CodecIdle /\ ServerIdle

NextParse == FromString

SpecParse == InitParse /\ [][NextParse]_vars

(***************************************************************************)
(* Specification of the relay of one publication.                          *)
(***************************************************************************)
InitRelay == RouterIdle /\ MatchIdle /\ RegistryIdle /\ RelayStarted

NextRelay == RelayPublication

SpecRelay == InitRelay /\ [][NextRelay]_vars

(***************************************************************************)
(* Specification of Part X: a value is converted to network order and      *)
(* back, by the broker's functions or by the router's.                     *)
(***************************************************************************)
InitEndian == RouterIdle /\ EndianEnter /\ RegistryIdle /\ CodecIdle /\ ServerIdle

NextEndian ==
    \/ Hton
    \/ Ntoh
    \/ HostToNetworkOrder
    \/ NetworkToHostOrder

SpecEndian == InitEndian /\ [][NextEndian]_vars

(***************************************************************************)
(* Specification of Part IX: subscribers subscribe, datagrams arrive and    *)
(* are handled, in any interleaving.                                       *)
(***************************************************************************)
InitPublish == RouterIdle /\ MatchIdle /\ PublishStarted

NextPublish ==
    \/ SubscriberSubscribes
    \/ PublisherSends
    \/ HandleUdpMsg

SpecPublish == InitPublish /\ [][NextPublish]_vars

(***************************************************************************)
(* Specification of Part VI: any sequence of insert, erase and             *)
(* longest_prefix_match calls on one trie, within the bounds.              *)
(***************************************************************************)
InitTrie ==
    MatchIdle /\ RegistryIdle /\ CodecIdle /\ ServerIdle /\ RouterIdle

NextTrie ==
    \/ TrieInsert
    \/ TrieErase
    \/ TrieLookup

SpecTrie == InitTrie /\ [][NextTrie]_vars

(***************************************************************************)
(* Specification of Part VII: frames to forward and ARP replies arrive in  *)
(* any order.                                                              *)
(***************************************************************************)
InitArp ==
    MatchIdle /\ RegistryIdle /\ CodecIdle /\ ServerIdle /\ RouterIdle

NextArp ==
    \/ ForwardFrame
    \/ HandleArpReply

SpecArp == InitArp /\ [][NextArp]_vars

(***************************************************************************)
(* Specification of Part VIII: a router started with a routing table is    *)
(* given IPv4 frames and ARP replies in any order.                         *)
(***************************************************************************)
InitForward ==
    MatchIdle /\ RegistryIdle /\ CodecIdle /\ ServerIdle /\ RouterStarted

NextForward ==
    \/ RecvFromAnyLink
    \/ HandleIpPacket
    \/ ArpReplyArrives

SpecForward == InitForward /\ [][NextForward]_vars

(***************************************************************************)
(* Claims on TokenPattern                                                  *)
(***************************************************************************)

\* The pattern language of the documentation (token_pattern.hpp): a literal
\* matches itself, '+' one token, '*' a run of one or more tokens.
\* documented_match(p, t, i, j): p from its i-th token on matches t from its
\* j-th token on (1-based).
RECURSIVE documented_match(_, _, _, _)
documented_match(p, t, i, j) ==
    IF i > Len(p) THEN j > Len(t)
    ELSE IF p[i] = Star
         THEN \E k \in (j + 1)..(Len(t) + 1) : documented_match(p, t, i + 1, k)
         ELSE /\ j <= Len(t)
              /\ (p[i] = Plus \/ p[i] = t[j])
              /\ documented_match(p, t, i + 1, j + 1)

\* C2: whenever matches() returns true, every '*' of the pattern can be
\* assigned a run of one or more tokens of the topic (never an empty run), the
\* other tokens matching one token each; in particular a/*/c does not match a/c.
C2_StarNeverEmpty ==
    m_result = "true" => documented_match(m_this, m_other, 1, 1)

\* matches() returned true with a pattern holding '*' and more tokens than the topic
C2_Witness ==
    /\ m_result = "true"
    /\ \E k \in 1..Len(m_this) : m_this[k] = Star
    /\ Len(m_other) < Len(m_this)

(***************************************************************************)
(* Claims on SubscribersRegistry                                           *)
(***************************************************************************)
Infos == subscribers_registry_.id_subscribers_
Buckets == subscribers_registry_.topic_subscribers_

InBucket(buckets, p, s) == p \in DOMAIN buckets /\ s \in buckets[p]

\* The descriptors of the attached subscribers that hold a pattern matching t
ExpectedRecipients(t) ==
    {Infos[s].sockfd :
        s \in {s \in DOMAIN Infos :
                 /\ is_connected(Infos[s])
                 /\ \E p \in Infos[s].topics : matches(p, t)}}

\* C1: after any sequence of registry calls, retrieve_topic_subscribers(t)
\* returns exactly the descriptors of the attached subscribers whose own
\* pattern set has a pattern matching t.
C1_RecipientsExact ==
    \A t \in RegTopics :
        retrieve_topic_subscribers(subscribers_registry_, t).fds = ExpectedRecipients(t)

\* Two attached subscribers hold patterns and some topic has a recipient
C1_Witness ==
    /\ \E t \in RegTopics : ExpectedRecipients(t) # {}
    /\ Cardinality({s \in DOMAIN Infos : is_connected(Infos[s]) /\ Infos[s].topics # {}}) = 2

\* C6: a call unsubscribe_from_topic(d, p) that returns leaves every subscriber
\* other than the one attached on d in the bucket for p (so the bucket stays
\* while another subscriber holds p), also when d's subscriber did not hold p.
C6_UnsubscribeOnlyOwn ==
    [][(last_call'.op = "unsubscribe" /\ ~last_call'.threw) =>
         LET me == subscribers_registry_.sock_subscribers_[last_call'.sockfd]
             p == last_call'.topic
         IN \A s \in (DOMAIN Infos) \ {me} :
               InBucket(Buckets, p, s) =>
                   InBucket(subscribers_registry_'.topic_subscribers_, p, s)]_vars

\* unsubscribe_from_topic returned and another subscriber still holds the topic
C6_Witness ==
    /\ last_call.op = "unsubscribe"
    /\ ~last_call.threw
    /\ \E s \in DOMAIN Infos :
          /\ Infos[s].sockfd # last_call.sockfd
          /\ last_call.topic \in Infos[s].topics

RECURSIVE Envelopes(_)
Envelopes(msgs) ==
    IF msgs = <<>> THEN <<>>
    ELSE TcpMessage_serialize(msgs[1]) \o Envelopes(Tail(msgs))

\* C4: the bytes on a stream are exactly the envelopes of the messages sent on
\* it, one after the other: each send_tcp_message adds 1 kind byte, 2 size
\* bytes and S inner bytes and nothing else.
C4_OneEnvelopePerSend == wire = Envelopes(sent_msgs)

\* Two messages have been sent on the stream
C4_Witness == Len(sent_msgs) = 2 /\ Len(wire) > 0


(***************************************************************************)
(* Claims on Server::run                                                   *)
(***************************************************************************)
\* The descriptors the broker polls for input
Watched == {poll_fds_[j].fd : j \in {j \in 1..Len(poll_fds_) : POLLIN \in poll_fds_[j].events}}

\* C3: run() ends only by returning after the exit command or by throwing on
\* a poll error; nothing that happens on a descriptor makes it throw.
C3_RunEndsOnlyOnExitOrPollError ==
    /\ pc = "thrown" => ev.kind = "poll_error"
    /\ pc = "returned" => stopped

\* C5: the broker waits only in poll(): it is never waiting inside recv() on
\* a descriptor whose sender went quiet after a proper prefix of an envelope.
C5_BlocksOnlyInPoll == pc # "blocked_recv"

\* C8: once the loop has handled a failed fetch_tcp_request on a descriptor
\* (peer closed, transport error or malformed envelope), that descriptor is
\* closed, no longer watched, and no subscriber is attached on it.
C8_FailedFetchDropsDescriptor ==
    ev.kind = "fetch_failed" =>
        /\ ev.fd \notin Watched
        /\ ev.fd \in kernel.closed
        /\ ~is_subscriber_connected(subscribers_registry_, ev.fd)

\* C10: a step that handles a SUBSCRIBE or UNSUBSCRIBE whose topic is not a
\* valid pattern leaves the registry and the watched list as they were: the
\* subscriber stays attached on its descriptor and the descriptor stays open.
C10_InvalidPatternIgnored ==
    [][(ev'.kind = "request" /\ ev'.why = "invalid_pattern") =>
          /\ subscribers_registry_' = subscribers_registry_
          /\ Watched' = Watched
          /\ kernel'.closed = kernel.closed]_vars

\* The cases of C3, C5, C8 and C10 happen
C3_Witness == pc = "thrown" /\ ev.kind = "exception"
C5_Witness == pc = "blocked_recv" /\ pending.stage = "size" /\ kernel.backlog
C8_Witness == ev.kind = "fetch_failed" /\ ev.why = "invalid" /\ ev.fd \in Watched
C10_Witness ==
    /\ ev.kind = "request" /\ ev.why = "invalid_pattern"
    /\ ~is_subscriber_connected(subscribers_registry_, ev.fd)
    /\ ev.fd \in kernel.closed

\* C9: when a fan-out ends, no recipient whose send failed with a closed
\* connection (EPIPE, ECONNRESET) is attached any more, and its subscriptions
\* are kept.
C9_ClosedRecipientDetached ==
    last_call.op = "fan_out" =>
        \A fd \in last_call.closed :
            ~is_subscriber_connected(subscribers_registry_, fd)

C9_Witness == last_call.op = "fan_out" /\ last_call.closed # {} /\ last_call.sent # {}

(***************************************************************************)
(* Claims on shutdown                                                      *)
(***************************************************************************)
\* poll() reported standard input readable in this iteration and the token
\* waiting there is exit
ExitWasReadable ==
    /\ kernel.stdin = "exit"
    /\ \E j \in 1..Len(poll_fds_) :
          poll_fds_[j].fd = STDIN_FILENO /\ POLLIN \in poll_fds_[j].revents

\* C11: an iteration in which poll() reported standard input readable with
\* the token exit waiting ends with run() returning: the loop does not go
\* back to poll() from it.  Without exit read, run() does not return.
C11_ExitEndsRun ==
    [][/\ (pc = "clients" /\ pc' = "poll") => ~ExitWasReadable
       /\ (pc = "clients" /\ pc' = "returned") => stopped]_vars

\* The loop is back in poll() after an iteration that found exit readable
C11_Witness ==
    /\ pc = "poll"
    /\ ExitWasReadable
    /\ ev.kind = "fetch_failed" /\ ev.fd = STDIN_FILENO

(***************************************************************************)
(* Claims on subscriber connections                                        *)
(***************************************************************************)
\* The id is attached on a descriptor other than sockfd
AttachedElsewhere(id, sockfd) ==
    /\ id \in DOMAIN Infos
    /\ is_connected(Infos[id])
    /\ Infos[id].sockfd # sockfd

\* C12: a CONNECT request from a new descriptor (one no subscriber is attached
\* on) whose id is attached on another descriptor comes to "already
\* connected": the registry is left as it was (the incumbent keeps
\* its descriptor and patterns and is still returned for matching topics, no
\* record is added), and the requesting descriptor is closed and no longer
\* watched.
C12_DuplicateConnectRejected ==
    [][(/\ last_call'.op = "connect_request"
        /\ ~is_subscriber_connected(subscribers_registry_, last_call'.sockfd)
        /\ AttachedElsewhere(last_call'.id, last_call'.sockfd))
       => /\ ev'.why = "already_connected"
          /\ subscribers_registry_' = subscribers_registry_
          /\ \A t \in RegTopics :
                retrieve_topic_subscribers(subscribers_registry_', t)
                    = retrieve_topic_subscribers(subscribers_registry_, t)
          /\ last_call'.sockfd \notin Watched'
          /\ last_call'.sockfd \in kernel'.closed]_vars

\* A CONNECT was refused while the incumbent holds a pattern
C12_Witness ==
    /\ ev.kind = "request" /\ ev.why = "already_connected"
    /\ AttachedElsewhere(last_call.id, last_call.sockfd)
    /\ Infos[last_call.id].topics # {}
    /\ ev.fd \in kernel.closed

(***************************************************************************)
(* Claims on detach and re-attach                                          *)
(***************************************************************************)
\* C13: after connect(d1, id), subscribe(d1, p), disconnect(d1) and
\* connect(d2, id), the subscriber found by d2 is id, p is in its pattern
\* set, and for every concrete topic p matches retrieve_topic_subscribers
\* returns d2 and, when d1 is another descriptor, not d1.
C13_SubscriptionsSurviveReattach ==
    last_call.op = "reattach" =>
        /\ ~last_call.threw
        /\ get_subscriber_by_sockfd(subscribers_registry_, last_call.sockfd).id
              = last_call.id
        /\ last_call.topic \in Infos[last_call.id].topics
        /\ \A t \in RegTopics :
              matches(last_call.topic, t) =>
                 LET fds == retrieve_topic_subscribers(subscribers_registry_, t).fds IN
                 /\ last_call.sockfd \in fds
                 /\ last_call.was # last_call.sockfd => last_call.was \notin fds

\* The sequence ended on another descriptor than it began, next to a
\* bystander, with a topic the pattern matches
C13_Witness ==
    /\ last_call.op = "reattach"
    /\ last_call.was # last_call.sockfd
    /\ BystanderId \in DOMAIN Infos
    /\ \E t \in RegTopics : matches(last_call.topic, t)

\* C14: a publication fanned out while the subscriber was detached is sent
\* neither on the descriptor it left nor on the one it attaches on later, and
\* attaching again sends nothing; a publication fanned out after that, on a
\* topic its pattern matches, is sent on the new descriptor.
C14_NothingQueuedWhileDetached ==
    /\ last_call.op \in {"missed", "reattach", "published"} =>
          \A e \in last_call.log :
             e.phase = "detached" => e.fd \notin {last_call.sockfd, last_call.was}
    /\ last_call.op = "reattach" =>
          \A e \in last_call.log : e.phase = "detached"
    /\ (/\ last_call.op = "published"
        /\ matches(last_call.topic, last_call.published[Len(last_call.published)]))
       => \E e \in last_call.log :
             e.phase = "reattached" /\ e.fd = last_call.sockfd

\* A publication went to the bystander while the subscriber was detached, and
\* a later one reached the subscriber on its new descriptor
C14_Witness ==
    /\ last_call.op = "published"
    /\ Len(last_call.published) = 2
    /\ \E e \in last_call.log : e.phase = "detached" /\ e.result = "ok"
    /\ \E e \in last_call.log :
          e.phase = "reattached" /\ e.fd = last_call.sockfd /\ e.result = "ok"

(***************************************************************************)
(* Claims on datagrams                                                     *)
(***************************************************************************)
\* C15: a step of run() that takes from the datagram socket only datagrams
\* that fail UdpMessage::deserialize sends nothing and leaves the registry,
\* the watched descriptors and the open descriptors as they were.
C15_MalformedDatagramDropped ==
    [][(/\ Len(kernel'.udp_q) < Len(kernel.udp_q)
        /\ \A k \in 1..(Len(kernel.udp_q) - Len(kernel'.udp_q)) :
              ~UdpMessage_deserialize(kernel.udp_q[k]).ok)
       => /\ subscribers_registry_' = subscribers_registry_
          /\ Watched' = Watched
          /\ kernel'.closed = kernel.closed
          /\ ev'.sent = {}]_vars

\* An empty datagram was taken and the datagram socket is closed
C15_Witness ==
    /\ ev.kind = "fetch_failed" /\ ev.fd = udp_fd_ /\ ev.why = "closed"
    /\ udp_fd_ \in kernel.closed
    /\ udp_fd_ \notin Watched

(***************************************************************************)
(* Claims on the descriptor index                                          *)
(***************************************************************************)
\* C16: a subscriber record holds a descriptor other than the sentinel if and
\* only if the descriptor index maps that descriptor to the record, and no
\* two records hold the same descriptor.
C16_DescriptorIndexExact ==
    LET sock == subscribers_registry_.sock_subscribers_ IN
    /\ \A s \in DOMAIN Infos :
          Infos[s].sockfd # NoSock =>
             (Infos[s].sockfd \in DOMAIN sock /\ sock[Infos[s].sockfd] = s)
    /\ \A d \in DOMAIN sock :
          sock[d] \in DOMAIN Infos /\ Infos[sock[d]].sockfd = d
    /\ \A s1, s2 \in DOMAIN Infos :
          (s1 # s2 /\ Infos[s1].sockfd # NoSock) => Infos[s1].sockfd # Infos[s2].sockfd

\* connect_subscriber returned for a descriptor another record already holds
C16_Witness ==
    /\ last_call.op = "connect" /\ ~last_call.threw
    /\ \E s \in DOMAIN Infos :
          s # last_call.id /\ Infos[s].sockfd = last_call.sockfd

\* the entries of a set that cover key k, and the lookup result the
\* longest-prefix rule prescribes for k
Covering(entries, k) == {e \in entries : IsNodePrefix(e.node, walk(k, BITS))}

documented_lookup(entries, k) ==
    IF Covering(entries, k) = {} THEN NullOpt
    ELSE (CHOOSE e \in Covering(entries, k) :
             \A f \in Covering(entries, k) : Len(f.node) <= Len(e.node)).value

\* C17: for every key k, longest_prefix_match(k) returns the value of the
\* inserted entry that covers k with the largest mask_len (mask_len from 0
\* to the key width), and no match exactly when no inserted entry covers k.
C17_LongestPrefixWins ==
    \A k \in Keys :
        longest_prefix_match(root_, k) = documented_lookup(route_entries, k)

\* an entry of mask_len 0 is in the trie and a lookup has returned no match
C17_Witness ==
    /\ trie_call.op = "longest_prefix_match"
    /\ trie_call.value = NullOpt
    /\ \E e \in route_entries : e.node = <<>>

\* a node that holds no value and has no child
Structural(t, s) ==
    /\ ~t[s].is_end_of_key_
    /\ ~has_child(t, s, 0)
    /\ ~has_child(t, s, 1)

\* C18: after a successful erase the trie keeps no childless, valueless node
\* other than the root: every purely structural node of the erased path has
\* been unlinked.
C18_NoStructuralLeftovers ==
    (trie_call.op = "erase" /\ trie_call.ret)
        => \A s \in DOMAIN root_ \ {<<>>} : ~Structural(root_, s)

\* an entry of mask_len 2 or more was erased and its terminal node is still
\* linked, childless and valueless
C18_Witness ==
    /\ trie_call.op = "erase"
    /\ trie_call.ret
    /\ trie_call.prefix_len >= 2
    /\ walk(trie_call.path, trie_call.prefix_len) \in DOMAIN root_
    /\ Structural(root_, walk(trie_call.path, trie_call.prefix_len))

\* the trie that results from inserting the entries of a set into an empty
\* trie (the entries sit on distinct nodes, so the order does not matter)
RECURSIVE Build(_)
Build(entries) ==
    IF entries = {} THEN EmptyTrie
    ELSE LET e == CHOOSE x \in entries : TRUE
             t == Build(entries \ {e})
             made == [s \in DOMAIN t \cup {SubSeq(e.node, 1, i) : i \in 0..Len(e.node)} |->
                         IF s \in DOMAIN t THEN t[s] ELSE Node]
         IN  [made EXCEPT ![e.node] = [value_ |-> e.value, is_end_of_key_ |-> TRUE]]

\* C19: erase(prefix, mask_len) returns true exactly when that entry was
\* inserted before; afterwards every key's lookup is what the lookup returns
\* on a trie holding only the remaining entries, the erased entry's value is
\* returned only where a remaining entry supplies it, and an erase of an
\* entry that was never inserted changes no lookup result.
C19_EraseForgetsEntry ==
    trie_call.op = "erase" =>
        /\ trie_call.ret = trie_call.was
        /\ \A k \in Keys :
              longest_prefix_match(root_, k)
                  = longest_prefix_match(Build(route_entries), k)
        /\ trie_call.was =>
              \A k \in Keys :
                  longest_prefix_match(root_, k) = trie_call.value
                      => \E e \in Covering(route_entries, k) :
                            e.value = trie_call.value
        /\ ~trie_call.was => trie_call.changed = {}

\* an entry was erased while a shorter entry with another value covers it
C19_Witness ==
    /\ trie_call.op = "erase"
    /\ trie_call.ret
    /\ \E e \in route_entries :
          /\ e.node # <<>>
          /\ IsNodePrefix(e.node, walk(trie_call.path, trie_call.prefix_len))
          /\ e.value # trie_call.value
          /\ longest_prefix_match(root_, trie_call.path) = e.value

\* the frames a queue of pending packets turns into when it is drained
\* towards hardware address mac
Drained(pkts, mac) ==
    [i \in 1..Len(pkts) |->
        [interface |-> pkts[i].next_hop_iface,
         frame |-> [pkts[i].frame EXCEPT
                       !.ethr_dhost = mac,
                       !.ethr_shost = get_interface_mac(pkts[i].next_hop_iface)]]]

\* C20: when an ARP reply from N is handled while frames f1..fn are queued
\* for N, exactly those frames are transmitted, once each and in the order
\* f1..fn, each on its recorded interface with Ethernet destination N's
\* learned address and Ethernet source the interface's own address, and N
\* has no pending queue afterwards.
C20_PendingDrainedInOrder ==
    [][(arp_call'.op = "arp_reply" /\ arp_call'.ip \in DOMAIN pending_packets_) =>
          /\ link' = Drained(pending_packets_[arp_call'.ip], arp_call'.mac)
          /\ arp_call'.ip \notin DOMAIN pending_packets_']_vars

\* a reply drained two frames that were queued for different interfaces
C20_Witness ==
    /\ arp_call.op = "arp_reply"
    /\ Len(arp_call.pkts) = 2
    /\ arp_call.pkts[1].next_hop_iface # arp_call.pkts[2].next_hop_iface
    /\ Len(link) = 2
    /\ link[2].interface = arp_call.pkts[2].next_hop_iface
    /\ link[2].frame.ethr_dhost = arp_call.mac

\* the queue of a next hop, empty when the hop has none
QueueOf(waiting, ip) == IF ip \in DOMAIN waiting THEN waiting[ip] ELSE <<>>

\* C21: in the send path a frame whose next hop has an ARP entry is
\* transmitted at once with rewritten Ethernet source, destination and
\* ethertype and nothing is queued; a frame whose next hop has no entry is
\* not transmitted: an ARP request for the hop is broadcast on the outgoing
\* interface and a copy of the frame is appended at the tail of the hop's
\* pending queue.
C21_SendOrQueue ==
    [][arp_call'.op = "send_frame" =>
          LET ip == arp_call'.ip
              interface == arp_call'.interface
          IN  \E payload \in Payloads :
                 IF ip \in DOMAIN arp_table_
                 THEN /\ link' = <<[interface |-> interface,
                                    frame |-> Frame(payload,
                                                    get_interface_mac(interface),
                                                    arp_table_[ip],
                                                    ETHERTYPE_IP)]>>
                      /\ pending_packets_' = pending_packets_
                 ELSE /\ link' = <<[interface |-> interface,
                                    frame |-> Frame(ip,
                                                    get_interface_mac(interface),
                                                    BroadcastMac,
                                                    ETHERTYPE_ARP)]>>
                      /\ DOMAIN pending_packets_' = DOMAIN pending_packets_ \cup {ip}
                      /\ pending_packets_'[ip] =
                            Append(QueueOf(pending_packets_, ip),
                                   [next_hop_iface |-> interface,
                                    frame |-> Frame(payload, OriginMac, OriginMac,
                                                    ETHERTYPE_IP)])
                      /\ \A a \in DOMAIN pending_packets_ \ {ip} :
                            pending_packets_'[a] = pending_packets_[a]]_vars

\* a second, different frame has been queued behind the first for a hop with
\* no entry, and only the ARP request went out
C21_Witness ==
    /\ arp_call.op = "send_frame"
    /\ arp_call.ip \notin DOMAIN arp_table_
    /\ Len(QueueOf(pending_packets_, arp_call.ip)) = 2
    /\ pending_packets_[arp_call.ip][1].frame.payload
          # pending_packets_[arp_call.ip][2].frame.payload
    /\ Len(link) = 1
    /\ link[1].frame.ethr_type = ETHERTYPE_ARP

\* the frame the last call of handle_ip_packet was given, and its interface
FrameIn == arp_call.pkts[1]

\* the IPv4 packets the last handler handed to the send path: those it
\* transmitted and those it left waiting for an ARP reply
HandedIp ==
    {link[i].frame.payload :
        i \in {j \in DOMAIN link : link[j].frame.ethr_type = ETHERTYPE_IP}}
    \cup UNION {{pending_packets_[a][i].frame.payload :
                    i \in DOMAIN pending_packets_[a]} :
                a \in DOMAIN pending_packets_}

\* the last handler handed exactly one IPv4 packet to the send path, an ICMP
\* message of the given type and code addressed to src: it was transmitted on
\* the interface to the MAC address known for src, or it waits for the answer
\* to an ARP request for src broadcast on the interface
IcmpHanded(mtype, mcode, src, interface) ==
    /\ \E q \in HandedIp :
          /\ HandedIp = {q}
          /\ q.proto = IP_PROTO_ICMP
          /\ q.icmp.mtype = mtype
          /\ q.icmp.mcode = mcode
          /\ q.dest_addr = src
          /\ q.source_addr = get_interface_ip(interface)
    /\ Len(link) = 1
    /\ link[1].interface = interface
    /\ IF src \in DOMAIN arp_table_
       THEN /\ link[1].frame.ethr_type = ETHERTYPE_IP
            /\ link[1].frame.ethr_dhost = arp_table_[src]
            /\ DOMAIN pending_packets_ = {}
       ELSE /\ link[1].frame = Frame(src, get_interface_mac(interface),
                                     BroadcastMac, ETHERTYPE_ARP)
            /\ DOMAIN pending_packets_ = {src}
            /\ Len(pending_packets_[src]) = 1
            /\ pending_packets_[src][1].next_hop_iface = interface

\* the last call of handle_ip_packet was given a frame that holds an IPv4
\* header and is not addressed to the interface it arrived on
NotForThisRouter ==
    /\ arp_call.op = "handle_ip_packet"
    /\ FrameIn.payload.frame_size >= ETHER_HDR_SIZE + IP_HDR_SIZE
    /\ FrameIn.payload.dest_addr # get_interface_ip(arp_call.interface)

\* C22: an IPv4 frame to be forwarded (TTL above 1, checksum valid, not for
\* the router) whose destination no routing-table entry covers is never
\* transmitted or queued toward its destination; one ICMP "destination
\* unreachable, net" message (type 3, code 0) addressed to the frame's
\* original source is handed to the send path, and the handler returns.
C22_NoRouteAnswered ==
    (/\ NotForThisRouter
     /\ FrameIn.payload.ttl > 1
     /\ checksum_valid(FrameIn.payload)
     /\ Covering(route_entries, FrameIn.payload.dest_addr) = {})
    => /\ \A q \in HandedIp : q.dest_addr # FrameIn.payload.dest_addr
       /\ IcmpHanded(3, 0, FrameIn.payload.source_addr, arp_call.interface)
       /\ ENABLED RecvFromAnyLink

\* a frame for a destination that none of the table's entries covers has
\* been answered at once, the sender's MAC address being known
C22_Witness ==
    /\ NotForThisRouter
    /\ FrameIn.payload.ttl > 1
    /\ checksum_valid(FrameIn.payload)
    /\ route_entries # {}
    /\ Covering(route_entries, FrameIn.payload.dest_addr) = {}
    /\ FrameIn.payload.source_addr \in DOMAIN arp_table_
    /\ Len(link) = 1
    /\ link[1].frame.payload.icmp.mtype = ICMP_TYPE_UNREACH

\* C23: an IPv4 frame whose TTL is 0 or 1 and whose destination is not the
\* arrival interface's own address is never forwarded and never queued for
\* forwarding; one ICMP "time exceeded" message (code 0) addressed to the
\* frame's original source is handed to the send path instead.
C23_TtlExpiredAnswered ==
    (NotForThisRouter /\ FrameIn.payload.ttl \in {0, 1})
    => /\ \A q \in HandedIp : q.dest_addr # FrameIn.payload.dest_addr
       /\ \A a \in DOMAIN pending_packets_ : a \notin Hops
       /\ IcmpHanded(ICMP_TYPE_TIME_EXCEEDED, 0, FrameIn.payload.source_addr, arp_call.interface)

\* a frame with TTL 1 for a destination the table has a route to has been
\* answered with the ICMP message, which waits for the sender's MAC address
C23_Witness ==
    /\ NotForThisRouter
    /\ FrameIn.payload.ttl = 1
    /\ checksum_valid(FrameIn.payload)
    /\ Covering(route_entries, FrameIn.payload.dest_addr) # {}
    /\ rtable_lookup(root_, FrameIn.payload.dest_addr) # NullOpt
    /\ DOMAIN pending_packets_ = {FrameIn.payload.source_addr}
    /\ pending_packets_[FrameIn.payload.source_addr][1].frame.payload.icmp.mtype
          = ICMP_TYPE_TIME_EXCEEDED

\* C24: the broker never re-orders publications: whatever is written to a
\* subscriber's stream in a step is one response frame, appended behind the
\* frames already written, made from the oldest datagram not yet handled,
\* which has been deserialized without error, whose topic matches one of the
\* subscriber's patterns, and which arrived after the datagram of every
\* frame written to that stream before.
C24_PublicationsInArrivalOrder ==
    [][\A fd \in PublishFds :
          \/ sent_msgs'[fd] = sent_msgs[fd]
          \/ /\ kernel.udp_q # <<>>
             /\ LET m == UdpMessage_deserialize(Head(kernel.udp_q))
                    topic == from_string(to_chars(m.topic))
                IN  /\ m.ok
                    /\ topic.ok
                    /\ MatchingHeld(subscribers_registry_, fd, topic.tokens) # {}
                    /\ Len(sent_msgs'[fd]) = Len(sent_msgs[fd]) + 1
                    /\ SubSeq(sent_msgs'[fd], 1, Len(sent_msgs[fd])) = sent_msgs[fd]
                    /\ LET frame == sent_msgs'[fd][Len(sent_msgs'[fd])] IN
                       /\ frame.topic = m.topic
                       /\ frame.ptype = m.ptype
                       /\ frame.payload.value = m.payload
                       /\ ArrivalOf(frame) = kernel.arrived - Len(kernel.udp_q) + 1
                       /\ \A i \in DOMAIN sent_msgs[fd] :
                             ArrivalOf(sent_msgs[fd][i]) < ArrivalOf(frame)]_vars

\* a stream holds the frames of the first and the third datagram, the second
\* having been left out (wrong kind, topic not matched or send failed)
C24_Witness ==
    \E fd \in PublishFds :
       /\ Len(sent_msgs[fd]) = 2
       /\ ArrivalOf(sent_msgs[fd][1]) = 1
       /\ ArrivalOf(sent_msgs[fd][2]) = 3
       /\ sent_msgs[fd][1].topic # sent_msgs[fd][2].topic

\* C25: a subscriber that holds several patterns matching a publication
\* receives exactly one response frame for it: after the datagram branch has
\* served a descriptor whose subscriber holds two or more patterns that
\* match the topic, the descriptor's stream holds one frame of that datagram.
C25_OneFramePerPublication ==
    \A fd \in PublishFds :
       (/\ ev.kind = "datagram"
        /\ fd \in ev.sent
        /\ sent_msgs[fd] # <<>>
        /\ Cardinality(MatchingHeld(
               subscribers_registry_, fd,
               from_string(to_chars(sent_msgs[fd][Len(sent_msgs[fd])].topic)).tokens))
              >= 2)
       => Cardinality({i \in DOMAIN sent_msgs[fd] :
                          ArrivalOf(sent_msgs[fd][i])
                             = kernel.arrived - Len(kernel.udp_q)}) = 1

\* a publication on a/c has been sent to a subscriber that holds a/+ and *
\* (both match), and its stream holds a frame
C25_Witness ==
    /\ ev.kind = "datagram"
    /\ FirstClientFd \in ev.sent
    /\ MatchingHeld(subscribers_registry_, FirstClientFd, <<A, C>>)
          = {<<A, Plus>>, <<Star>>}
    /\ sent_msgs[FirstClientFd] # <<>>
    /\ sent_msgs[FirstClientFd][Len(sent_msgs[FirstClientFd])].topic
          = <<97, 47, 99>>

\* C26: subscribe_to_topic is idempotent: in every state of the registry, for
\* every attached descriptor d and pattern p, subscribe(d, p) followed by
\* subscribe(d, p) succeeds and leaves the registry (the subscriber's pattern
\* set, the bucket for p and everything else) as the single subscribe(d, p)
\* left it.
C26_SubscribeIdempotent ==
    \A d \in PublishFds \cup {NoSock}, p \in RegPatterns :
       LET once == subscribe_to_topic(subscribers_registry_, d, p)
           twice == subscribe_to_topic(once.reg, d, p)
       IN  ~once.threw => (~twice.threw /\ twice.reg = once.reg)

\* both subscribers have subscribed to * and the first also to a/+: the
\* bucket of * holds two subscribers
C26_Witness ==
    /\ <<Star>> \in DOMAIN subscribers_registry_.topic_subscribers_
    /\ subscribers_registry_.topic_subscribers_[<<Star>>] = {"sa", "sb"}
    /\ subscribers_registry_.id_subscribers_["sa"].topics = {<<Star>>, <<A, Plus>>}

\* the pattern with its first + replaced by the concrete token x
RECURSIVE PlusAs(_, _)
PlusAs(tokens, x) ==
    IF tokens = <<>> THEN <<>>
    ELSE IF Head(tokens) = Plus THEN <<x>> \o Tail(tokens)
    ELSE <<Head(tokens)>> \o PlusAs(Tail(tokens), x)

\* C27: matches treats + as standing for exactly one concrete token: when
\* matches has returned for a pattern that holds a + and a concrete topic, it
\* returned true exactly if it returns true for the pattern with that +
\* replaced by some single concrete token; and for a pattern without *, it
\* returned true exactly if pattern and topic have the same number of tokens
\* and every token of the pattern is + or equal to the topic's token at its
\* place (so a/+/c matches a/x/c for every x, and neither a/c nor a/x/y/c).
C27_PlusIsOneToken ==
    (m_result \in {"true", "false"} /\ Plus \in Range(m_this))
    => /\ (m_result = "true")
             <=> \E x \in TopicTokens : matches(PlusAs(m_this, x), m_other)
       /\ Star \notin Range(m_this)
             => ((m_result = "true")
                    <=> /\ Len(m_this) = Len(m_other)
                        /\ \A k \in 1..Len(m_this) :
                              m_this[k] = Plus \/ m_this[k] = m_other[k])

\* matches has returned false for a/+/c against a topic of four tokens that
\* begins with a and ends with c
C27_Witness ==
    /\ m_result = "false"
    /\ m_this = <<(<<"a">>), Plus, (<<"c">>)>>
    /\ Len(m_other) = 4
    /\ m_other[1] = <<"a">>
    /\ m_other[4] = <<"c">>

\* the segments of a text between its separators, empty ones included
RECURSIVE Segments(_, _)
Segments(str, current) ==
    IF str = <<>> THEN <<current>>
    ELSE IF Head(str) = separator_
         THEN <<current>> \o Segments(Tail(str), <<>>)
         ELSE Segments(Tail(str), Append(current, Head(str)))

NonEmptySegments(str) == SelectSeq(Segments(str, <<>>), LAMBDA seg : seg # <<>>)

\* C28: from_string accepts a text exactly when it has at least one non-empty
\* /-separated segment and no two of its non-empty segments that follow one
\* another are both wildcards; for an accepted text the token list is the
\* sequence of its non-empty segments in order (no empty token, no two
\* adjacent wildcards); every other text is rejected with
\* std::invalid_argument.
C28_FromStringAccepts ==
    m_result \in {"parsed", "thrown"}
    => LET segs == NonEmptySegments(m_other)
           acceptable ==
               /\ segs # <<>>
               /\ \A k \in 1..(Len(segs) - 1) :
                     ~(is_wildcard(segs[k]) /\ is_wildcard(segs[k + 1]))
       IN  /\ (m_result = "parsed") <=> acceptable
           /\ m_result = "parsed"
                 => /\ m_this = segs
                    /\ \A k \in 1..Len(m_this) : m_this[k] # <<>>
                    /\ \A k \in 1..(Len(m_this) - 1) :
                          ~(is_wildcard(m_this[k]) /\ is_wildcard(m_this[k + 1]))

\* a text with an empty segment between two tokens has been accepted with
\* two tokens
C28_Witness ==
    /\ m_result = "parsed"
    /\ m_other = <<"*", "/", "/", "a">>
    /\ m_this = <<Star, <<"a">> >>

\* the two bytes of a 16-bit number, most significant first
BigEndian16(v) == <<v \div 256, v % 256>>

\* the payload bytes of a datagram of the given kind, as the datagram's
\* layout has them: the fixed-size kinds whole, a STRING up to its NUL
DatagramPayload(ptype, rest) ==
    CASE ptype = PT_INT -> SubSeq(rest, 1, 5)
      [] ptype = PT_SHORT_REAL -> SubSeq(rest, 1, 2)
      [] ptype = PT_FLOAT -> SubSeq(rest, 1, 6)
      [] ptype = PT_STRING -> SubSeq(rest, 1, strnlen(rest, Len(rest), 0))

\* the inner payload of the envelope the stream holds: S bytes behind the
\* kind byte and the two size bytes
InnerOnWire == SubSeq(wire, 4, 3 + wire[2] * 256 + wire[3])

\* C29: the inner payload serialized for a response is, byte for byte, the
\* publisher's IPv4 address as received, the publisher's source port
\* big-endian, the topic length, the topic bytes, the payload kind and the
\* payload in the datagram's layout for its kind.
C29_ResponseInnerLayout ==
    ev.why = "relayed"
    => LET m == UdpMessage_deserialize(ev.datagram) IN
       InnerOnWire = CodecIp \o BigEndian16(ev.port) \o <<Len(m.topic)>>
                        \o m.topic \o <<m.ptype>>
                        \o DatagramPayload(m.ptype, m.payload)

\* an INT publication from port 4660 has been relayed and the two port bytes
\* on the stream are 0x34 0x12
C29_Witness ==
    /\ ev.why = "relayed"
    /\ ev.port = 4660
    /\ UdpMessage_deserialize(ev.datagram).ptype = PT_INT
    /\ SubSeq(InnerOnWire, 5, 6) = <<52, 18>>

MaxFields == 2

Field(kind, value) == [kind |-> kind, value |-> value]

\* sizeof(args)
sizeof(field) == Len(field.value)

\* the bytes of a field in memory, lowest address first
object_representation(field) ==
    IF field.kind = "integer"
    THEN [k \in 1..Len(field.value) |-> field.value[Len(field.value) + 1 - k]]
    ELSE field.value

\* the field whose bytes in memory are bytes
field_of_representation(kind, bytes) ==
    Field(kind, IF kind = "integer"
                THEN [k \in 1..Len(bytes) |-> bytes[Len(bytes) + 1 - k]]
                ELSE bytes)

\* std::span::subspan(offset): the bytes from offset to the end
subspan(buffer, offset) == SubSeq(buffer, offset + 1, Len(buffer))

\* std::ranges::copy(bytes, buffer.begin() + offset)
copy_at(buffer, offset, bytes) ==
    [k \in 1..Len(buffer) |->
        IF k > offset /\ k <= offset + Len(bytes) THEN bytes[k - offset]
        ELSE buffer[k]]

\* serialize_tuple from field i on: subspan(offset, sizeof(args)),
\* serialize_field, offset += sizeof(args)
RECURSIVE serialize_from(_, _, _, _)
serialize_from(buffer, tuple, i, offset) ==
    IF i > Len(tuple) THEN buffer
    ELSE serialize_from(copy_at(buffer, offset, object_representation(tuple[i])),
                        tuple, i + 1, offset + sizeof(tuple[i]))

serialize_tuple(buffer, tuple) == serialize_from(buffer, tuple, 1, 0)

\* the conversion std::span<const std::byte, sizeof(args)>(source) of a span
\* of dynamic extent: its precondition is source.size() == sizeof(args).
\* When it does not hold, a library built with its assertions aborts and a
\* library built without them views the first sizeof(args) bytes.
fixed_span(source, extent, assertions) ==
    IF Len(source) = extent THEN {source}
    ELSE IF assertions THEN {"abort"}
    ELSE {SubSeq(source, 1, extent)}

\* deserialize_tuple<T> from field i on; result holds the fields read so far
RECURSIVE deserialize_from(_, _, _, _, _, _)
deserialize_from(buffer, T, i, offset, result, assertions) ==
    IF i > Len(T) THEN {result}
    ELSE UNION {
        IF buffer_span = "abort" THEN {"abort"}
        ELSE deserialize_from(buffer, T, i + 1, offset + sizeof(T[i]),
                 Append(result, field_of_representation(T[i].kind, buffer_span)),
                 assertions)
        : buffer_span \in fixed_span(subspan(buffer, offset), sizeof(T[i]),
                                     assertions)}

\* the outcomes of deserialize_tuple<T>(buffer); of T only the kinds and
\* sizes of the fields are used
deserialize_tuple(buffer, T, assertions) ==
    deserialize_from(buffer, T, 1, 0, <<>>, assertions)

\* whether the standard library is built with its precondition assertions
LibraryAssertions == BOOLEAN

\* the fields: uint8_t, uint16_t and std::array<uint8_t, 2>
SerialBytes == {0, 18, 240}
SerialFields ==
    {Field("integer", v) : v \in [1..1 -> SerialBytes] \cup [1..2 -> SerialBytes]}
       \cup {Field("array", v) : v \in [1..2 -> SerialBytes]}
SerialObjects == SeqsOf(SerialFields, 1, MaxFields)

RECURSIVE SumSizes(_, _)
SumSizes(tuple, i) ==
    IF i > Len(tuple) THEN 0 ELSE sizeof(tuple[i]) + SumSizes(tuple, i + 1)

\* an object and a std::array<std::byte, N> buffer, N the sum of the field
\* sizes, that was not initialised
SerialEnter ==
    /\ m_this \in SerialObjects
    /\ \E junk \in {0, 255} : m_other = [k \in 1..SumSizes(m_this, 1) |-> junk]
    /\ positions = <<>>
    /\ m_result = "object"

\* serialize_tuple(buffer_span, pod.to_tuple())
SerializeTuple ==
    /\ m_result = "object"
    /\ m_other' = serialize_tuple(m_other, m_this)
    /\ m_result' = "serialized"
    /\ UNCHANGED <<m_this, positions, registryVars, codecVars, serverVars,
                   routerVars>>

\* deserialize_tuple<T>(buffer_span)
DeserializeTuple ==
    /\ m_result = "serialized"
    /\ \E assertions \in LibraryAssertions :
          \E outcome \in deserialize_tuple(m_other, m_this, assertions) :
             IF outcome = "abort"
             THEN positions' = <<>> /\ m_result' = "aborted"
             ELSE positions' = outcome /\ m_result' = "deserialized"
    /\ UNCHANGED <<m_this, m_other, registryVars, codecVars, serverVars,
                   routerVars>>

(***************************************************************************)
(* Specification of Part XI: an object is serialized into a buffer and     *)
(* deserialized from it.                                                   *)
(***************************************************************************)
InitSerial == RouterIdle /\ SerialEnter /\ RegistryIdle /\ CodecIdle /\ ServerIdle

NextSerial == SerializeTuple \/ DeserializeTuple

SpecSerial == InitSerial /\ [][NextSerial]_vars

\* the bytes of the fields in declaration order, nothing between them
RECURSIVE PackedLayout(_, _)
PackedLayout(tuple, i) ==
    IF i > Len(tuple) THEN <<>>
    ELSE object_representation(tuple[i]) \o PackedLayout(tuple, i + 1)

\* C31: serialize_tuple followed by deserialize_tuple is a round trip: the
\* buffer written holds the fields in declaration order without padding, and
\* deserializing it returns an object whose fields all equal the original's.
C31_TupleRoundTrip ==
    /\ m_result \in {"serialized", "deserialized", "aborted"}
          => m_other = PackedLayout(m_this, 1)
    /\ m_result \in {"deserialized", "aborted"}
          => m_result = "deserialized" /\ positions = m_this

\* an object of two fields was serialized and its deserialization was tried
C31_Witness ==
    /\ m_result \in {"deserialized", "aborted"}
    /\ Len(m_this) = 2
    /\ m_this[1].kind = "integer" /\ Len(m_this[1].value) = 2
    /\ m_this[2].kind = "array"

(***************************************************************************)
(* Claims on the watched list                                              *)
(***************************************************************************)
\* the descriptors the process holds that accept() never returns
PermanentFds == {STDIN_FILENO, 1, 2, listen_fd_, udp_fd_}

\* C32: while run() is running, poll_fds_[0], poll_fds_[1] and poll_fds_[2]
\* are the listening socket, the datagram socket and standard input, each
\* watched for POLLIN, and every entry from index 3 on holds a descriptor
\* returned by accept.
C32_PermanentThenClients ==
    ~RunIsOver =>
        /\ Len(poll_fds_) >= 3
        /\ PF(0).fd = listen_fd_ /\ POLLIN \in PF(0).events
        /\ PF(1).fd = udp_fd_ /\ POLLIN \in PF(1).events
        /\ PF(2).fd = STDIN_FILENO /\ POLLIN \in PF(2).events
        /\ \A i \in 3..(Len(poll_fds_) - 1) : PF(i).fd \notin PermanentFds

\* the subscriber loop is about to handle the entry at index 3, which holds
\* the listening socket with a connection waiting
C32_Witness ==
    /\ pc = "clients" /\ idx = 3
    /\ PF(3).fd = listen_fd_
    /\ POLLIN \in PF(3).revents

(***************************************************************************)
(* Part XII: one pass of the subscriber loop of run() (server.cpp 480-521) *)
(* over a watched list that holds subscriber connections behind the six    *)
(* entries the constructor leaves.  poll() has returned; the entries of    *)
(* the listening socket, the datagram socket and standard input reported   *)
(* nothing.  What fetch_tcp_request finds on a readable connection is the  *)
(* peer's choice.                                                          *)
(***************************************************************************)
MaxWatched == 3

\* the ids of the subscribers attached when the pass starts: sa, sc, ss
PassIds == <<<<115, 97>>, <<115, 99>>, <<115, 115>>>>

\* the registry after connect_subscriber for the connections k..n in attached
RECURSIVE PassRegistry(_, _, _)
PassRegistry(attached, k, n) ==
    IF k > n THEN EmptyRegistry
    ELSE LET reg == PassRegistry(attached, k + 1, n) IN
         IF k \in attached
         THEN connect_subscriber(reg, FirstClientFd + k - 1, to_chars(PassIds[k])).reg
         ELSE reg

\* what poll() reports for a connection
PassRevents == {{}, {POLLIN}, {POLLHUP}, {POLLERR}}

\* the ends of fetch_tcp_request(sockfd) on a readable connection: a request
\* was read, the peer closed, the transport failed, the envelope was
\* malformed, or the envelope is incomplete and recv() waits
FetchOutcomes ==
    {FetchResult("request", <<>>, "payload", 0, <<>>, request) : request \in ClientRequests}
       \cup {FetchResult(status, <<>>, "kind", 0, <<>>, NoRequest) :
                status \in {"closed", "error", "invalid", "blocked"}}

PassEvent(kind, fd, why, reported, handled) ==
    [kind |-> kind, fd |-> fd, why |-> why, sent |-> {}, closed |-> {}, failed |-> {},
     reported |-> reported, handled |-> handled]

\* poll() has returned with revents set; ev.reported holds the connections
\* it reported, ev.handled those the loop body has acted on, in order
PassStarted ==
    /\ \E n \in 1..MaxWatched :
          \E revents \in [1..n -> PassRevents], attached \in SUBSET (1..n) :
             /\ poll_fds_ = ConstructedPollFds \o
                   [k \in 1..n |-> [fd |-> FirstClientFd + k - 1, events |-> {POLLIN},
                                    revents |-> revents[k]]]
             /\ subscribers_registry_ = PassRegistry(attached, 1, n)
             /\ ev = PassEvent("poll", NoSock, "",
                        {FirstClientFd + k - 1 : k \in {j \in 1..n : revents[j] # {}}},
                        <<>>)
    /\ last_call = NoCall
    /\ pc = "clients"
    /\ idx = 3
    /\ stopped = FALSE
    /\ kernel = NoKernel
    /\ pending = NoPending

\* the body of the subscriber loop for poll_fds_[i], i = idx, with the index
\* update that follows it
PassStep ==
    /\ pc = "clients"
    /\ idx < Len(poll_fds_)
    /\ LET sockfd == PF(idx).fd
           initial_size == Len(poll_fds_)
           readable == POLLIN \in PF(idx).revents
           hung == ~readable /\ PF(idx).revents \cap {POLLERR, POLLHUP} # {}
           same == [reg |-> subscribers_registry_, fds |-> poll_fds_, kernel |-> kernel]
           gone == disconnect_client(subscribers_registry_, poll_fds_, kernel, idx)
       IN
       \E r \in (IF readable THEN FetchOutcomes ELSE {FetchResult("none", <<>>, "kind", 0, <<>>, NoRequest)}) :
          LET h == handle_tcp_request(subscribers_registry_, sockfd, r.request)
              h_gone == disconnect_client(h.reg, poll_fds_, kernel, idx)
              branch ==
                 CASE readable -> r.status
                   [] hung -> IF get_subscriber_id(subscribers_registry_, sockfd).threw
                              THEN "exception" ELSE "hangup"
                   [] OTHER -> "skip"
              after ==
                 CASE branch \in {"closed", "hangup"} -> gone
                   [] branch = "request" /\ ~h.dismissed -> h_gone
                   [] branch = "request" /\ h.dismissed -> [same EXCEPT !.reg = h.reg]
                   [] OTHER -> same
          IN
          /\ subscribers_registry_' = after.reg
          /\ poll_fds_' = after.fds
          /\ kernel' = after.kernel
          /\ pc' = CASE branch = "exception" -> "thrown"
                     [] branch = "blocked" -> "blocked_recv"
                     [] OTHER -> "clients"
          /\ idx' = IF branch \in {"exception", "blocked"} THEN idx
                    ELSE next_index(idx, initial_size, Len(after.fds))
          /\ ev' = PassEvent(branch, sockfd, IF branch = "request" THEN h.why ELSE "",
                             ev.reported,
                             IF branch = "skip" THEN ev.handled
                             ELSE Append(ev.handled, sockfd))
    /\ UNCHANGED <<stopped, pending, last_call, matchVars, routerVars, codecVars>>

(***************************************************************************)
(* Specification of Part XII: the subscriber loop runs over the list, then *)
(* while (!stopped) sends run() back to poll().                            *)
(***************************************************************************)
InitPass == RouterIdle /\ MatchIdle /\ CodecIdle /\ PassStarted

NextPass == PassStep \/ LoopEnd

SpecPass == InitPass /\ [][NextPass]_vars

\* the pass came to its end: the loop condition failed and run() is back at
\* poll()
PassCompleted == pc = "poll"

MaxStream == 3
MaxInterrupts == 2

StreamBytes == {1, 2}
Streams == SeqsOf(StreamBytes, 0, MaxStream)

\* the errors of send() and recv() other than EINTR
StreamErrnos == {"EPIPE", "ECONNRESET", "EBADF"}

StreamCall(op, buffer_size, total, data, interrupts, last) ==
    [op |-> op, buffer_size |-> buffer_size, total |-> total, data |-> data,
     interrupts |-> interrupts, last |-> last]

\* how one recv(sockfd, buffer, buffer_size - total_received, 0) can end: some
\* of the bytes that wait, at most as many as asked for; zero when nothing
\* waits and the peer has closed; -1 with errno
RecvEnds(call, stream) ==
    {[kind |-> "bytes", count |-> k, errno |-> ""] :
        k \in 1..(IF Len(stream) < call.buffer_size - call.total
                  THEN Len(stream) ELSE call.buffer_size - call.total)}
       \cup (IF stream = <<>> THEN {[kind |-> "zero", count |-> 0, errno |-> ""]} ELSE {})
       \cup {[kind |-> "failed", count |-> -1, errno |-> e] : e \in StreamErrnos}
       \cup (IF call.interrupts < MaxInterrupts
             THEN {[kind |-> "failed", count |-> -1, errno |-> "EINTR"]} ELSE {})

\* how one send(sockfd, buffer, buffer_size - total_sent, 0) can end: some or
\* all of the bytes offered were accepted, or -1 with errno
SendEnds(call) ==
    {[kind |-> "bytes", count |-> k, errno |-> ""] :
        k \in 1..(call.buffer_size - call.total)}
       \cup {[kind |-> "failed", count |-> -1, errno |-> e] : e \in StreamErrnos}
       \cup (IF call.interrupts < MaxInterrupts
             THEN {[kind |-> "failed", count |-> -1, errno |-> "EINTR"]} ELSE {})

\* a recv_all that leaves out buffer += received
recv_all_iteration_in_place(call, buffer, stream, end) ==
    CASE end.kind = "failed" /\ end.errno = "EINTR" ->
            [call |-> [call EXCEPT !.interrupts = @ + 1, !.last = "EINTR"],
             buffer |-> buffer, stream |-> stream, result |-> "running"]
      [] end.kind = "failed" /\ end.errno # "EINTR" ->
            [call |-> [call EXCEPT !.last = end.errno],
             buffer |-> buffer, stream |-> stream, result |-> "TcpTransmissionError"]
      [] end.kind = "zero" ->
            [call |-> [call EXCEPT !.last = "zero"],
             buffer |-> buffer, stream |-> stream, result |-> "TcpConnectionClosed"]
      [] end.kind = "bytes" ->
            [call |-> [call EXCEPT !.total = @ + end.count, !.last = "bytes"],
             buffer |-> copy_at(buffer, 0, SubSeq(stream, 1, end.count)),
             stream |-> SubSeq(stream, end.count + 1, Len(stream)),
             result |-> IF call.total + end.count < call.buffer_size
                        THEN "running" ELSE "returned"]

\* one iteration of the loop of recv_all: the recv() call, the tests on its
\* result, total_received += received, buffer += received, and the loop
\* condition
recv_all_iteration(call, buffer, stream, end) ==
    CASE end.kind = "failed" /\ end.errno = "EINTR" ->
            [call |-> [call EXCEPT !.interrupts = @ + 1, !.last = "EINTR"],
             buffer |-> buffer, stream |-> stream, result |-> "running"]
      [] end.kind = "failed" /\ end.errno # "EINTR" ->
            [call |-> [call EXCEPT !.last = end.errno],
             buffer |-> buffer, stream |-> stream, result |-> "TcpTransmissionError"]
      [] end.kind = "zero" ->
            [call |-> [call EXCEPT !.last = "zero"],
             buffer |-> buffer, stream |-> stream, result |-> "TcpConnectionClosed"]
      [] end.kind = "bytes" ->
            [call |-> [call EXCEPT !.total = @ + end.count, !.last = "bytes"],
             buffer |-> copy_at(buffer, call.total, SubSeq(stream, 1, end.count)),
             stream |-> SubSeq(stream, end.count + 1, Len(stream)),
             result |-> IF call.total + end.count < call.buffer_size
                        THEN "running" ELSE "returned"]

\* one iteration of the loop of send_all: the send() call, the tests on its
\* result, total_sent += sent, buffer += sent, and the loop condition
send_all_iteration(call, buffer, stream, end) ==
    CASE end.kind = "failed" /\ end.errno = "EINTR" ->
            [call |-> [call EXCEPT !.interrupts = @ + 1, !.last = "EINTR"],
             buffer |-> buffer, stream |-> stream, result |-> "running"]
      [] end.kind = "failed" /\ end.errno \in {"EPIPE", "ECONNRESET"} ->
            [call |-> [call EXCEPT !.last = end.errno],
             buffer |-> buffer, stream |-> stream, result |-> "TcpConnectionClosed"]
      [] end.kind = "failed" /\ end.errno \notin {"EINTR", "EPIPE", "ECONNRESET"} ->
            [call |-> [call EXCEPT !.last = end.errno],
             buffer |-> buffer, stream |-> stream, result |-> "TcpTransmissionError"]
      [] end.kind = "bytes" ->
            [call |-> [call EXCEPT !.total = @ + end.count, !.last = "bytes"],
             buffer |-> buffer,
             stream |-> stream \o SubSeq(buffer, call.total + 1, call.total + end.count),
             result |-> IF call.total + end.count < call.buffer_size
                        THEN "running" ELSE "returned"]

\* recv_all(sockfd, buffer, buffer_size) is entered, the peer having sent data
\* (and closing after it), or send_all(sockfd, buffer, buffer_size) is entered
\* with data in the buffer.  With buffer_size 0 the loop is not entered.
StreamEnter ==
    /\ \E data \in Streams :
          \/ \E buffer_size \in 0..MaxStream :
                /\ m_this = StreamCall("recv_all", buffer_size, 0, data, 0, "none")
                /\ m_other = [k \in 1..buffer_size |-> 0]
                /\ wire = data
                /\ m_result = IF buffer_size = 0 THEN "returned" ELSE "running"
          \/ /\ m_this = StreamCall("send_all", Len(data), 0, data, 0, "none")
             /\ m_other = data
             /\ wire = <<>>
             /\ m_result = IF data = <<>> THEN "returned" ELSE "running"
    /\ positions = <<>>
    /\ tcp_buffer_ = <<>>
    /\ sent_msgs = <<>>

\* recv_all runs one iteration of its loop
RecvAllIteration ==
    /\ m_result = "running"
    /\ m_this.op = "recv_all"
    /\ \E end \in RecvEnds(m_this, wire) :
          LET r == recv_all_iteration(m_this, m_other, wire, end) IN
          /\ m_this' = r.call
          /\ m_other' = r.buffer
          /\ wire' = r.stream
          /\ m_result' = r.result
    /\ UNCHANGED <<positions, tcp_buffer_, sent_msgs, registryVars, serverVars, routerVars>>

\* send_all runs one iteration of its loop
SendAllIteration ==
    /\ m_result = "running"
    /\ m_this.op = "send_all"
    /\ \E end \in SendEnds(m_this) :
          LET r == send_all_iteration(m_this, m_other, wire, end) IN
          /\ m_this' = r.call
          /\ m_other' = r.buffer
          /\ wire' = r.stream
          /\ m_result' = r.result
    /\ UNCHANGED <<positions, tcp_buffer_, sent_msgs, registryVars, serverVars, routerVars>>

(***************************************************************************)
(* Specification of Part XIII: one call of recv_all or send_all.           *)
(***************************************************************************)
InitStream == RouterIdle /\ RegistryIdle /\ ServerIdle /\ StreamEnter

NextStream == RecvAllIteration \/ SendAllIteration

SpecStream == InitStream /\ [][NextStream]_vars

\* C34: recv_all returns normally only with exactly buffer_size bytes in the
\* buffer, in stream order, whatever the partial reads and EINTR; a recv() of
\* zero bytes before that raises TcpConnectionClosed and any other failure
\* TcpTransmissionError.  send_all returns only with all bytes written in
\* order, retries through EINTR and partial writes, and raises
\* TcpConnectionClosed on EPIPE or ECONNRESET.
C34_AllOrException ==
    /\ (m_this.op = "recv_all" /\ m_result = "returned") =>
          /\ m_this.total = m_this.buffer_size
          /\ m_other = SubSeq(m_this.data, 1, m_this.buffer_size)
          /\ wire = SubSeq(m_this.data, m_this.buffer_size + 1, Len(m_this.data))
    /\ (m_this.op = "send_all" /\ m_result = "returned") =>
          /\ m_this.total = m_this.buffer_size
          /\ wire = m_other
    /\ m_this.op = "recv_all" =>
          /\ m_result = "TcpConnectionClosed" <=> m_this.last = "zero"
          /\ m_result = "TcpTransmissionError" <=> m_this.last \in StreamErrnos
    /\ m_this.op = "send_all" =>
          /\ m_result = "TcpConnectionClosed" <=> m_this.last \in {"EPIPE", "ECONNRESET"}
          /\ m_result = "TcpTransmissionError" <=> m_this.last \in StreamErrnos \ {"EPIPE", "ECONNRESET"}
    /\ m_this.last = "EINTR" => m_result = "running"
    /\ (m_this.last = "bytes" /\ m_this.total < m_this.buffer_size) => m_result = "running"

\* recv_all returned three bytes that arrived in more than one read, with an
\* EINTR in between
C34_Witness ==
    /\ m_this.op = "recv_all"
    /\ m_result = "returned"
    /\ m_this.buffer_size = 3
    /\ m_this.interrupts >= 1
    /\ m_this.data = <<1, 2, 1>>

(***************************************************************************)
(* Claims on the forwarding of IPv4 frames                                 *)
(***************************************************************************)
\* an IPv4 packet that passes through the router: its source is none of the
\* router's own addresses (the ICMP messages the router writes carry one)
Forwarded(q) == q.source_addr \notin {get_interface_ip(i) : i \in Interfaces}

\* C35: every IPv4 frame the router forwards leaves with a TTL one less than
\* it arrived with and with a header checksum that verifies, whether it is
\* transmitted at once or after waiting for an ARP reply: what handle_ip_packet
\* hands to the send path is the arrived packet with the TTL one lower and a
\* checksum that verifies, a packet that waits keeps verifying, and the frames
\* handle_arp_reply transmits carry the waiting packets as they were queued.
C35_TtlDecrementedOnce ==
    /\ \A q \in HandedIp : Forwarded(q) => checksum_valid(q)
    /\ arp_call.op = "handle_ip_packet" =>
          \A q \in HandedIp :
             Forwarded(q) =>
                q = [FrameIn.payload EXCEPT !.ttl = @ - 1, !.checksum = q.checksum]
    /\ arp_call.op = "arp_reply" =>
          /\ Len(link) = Len(arp_call.pkts)
          /\ \A i \in DOMAIN link :
                /\ link[i].frame.ethr_type = ETHERTYPE_IP
                /\ link[i].frame.payload = arp_call.pkts[i].frame.payload

\* a frame that arrived with TTL 64 and waited for the next hop's address
\* has been transmitted with TTL 63
C35_Witness ==
    /\ arp_call.op = "arp_reply"
    /\ arp_call.ip \in Hops
    /\ Len(link) = 1
    /\ Forwarded(link[1].frame.payload)
    /\ link[1].frame.payload.ttl = 63
    /\ link[1].frame.ethr_dhost = arp_call.mac

\* this step is a call of handle_ip_packet with a frame that holds an IPv4
\* header whose checksum does not verify
BadChecksumHandled ==
    /\ arp_call'.op = "handle_ip_packet"
    /\ arp_call'.pkts[1].payload.frame_size >= ETHER_HDR_SIZE + IP_HDR_SIZE
    /\ ~checksum_valid(arp_call'.pkts[1].payload)

\* this step transmitted nothing and left the ARP cache and the pending
\* queues as they were
NothingDone ==
    /\ link' = <<>>
    /\ arp_table_' = arp_table_
    /\ pending_packets_' = pending_packets_

\* the frame of this step has a TTL of 0 or 1 and is not addressed to the
\* interface it arrived on
TtlRanOut ==
    /\ arp_call'.pkts[1].payload.ttl <= 1
    /\ arp_call'.pkts[1].payload.dest_addr # get_interface_ip(arp_call'.interface)

\* C36 as stated: for every IPv4 frame whose header checksum is invalid,
\* whatever its TTL and destination, the handler transmits nothing and leaves
\* the ARP cache and the pending queues unchanged.
C36_BadChecksumIgnored == [][BadChecksumHandled => NothingDone]_vars

\* C36 amended: for every IPv4 frame whose header checksum is invalid and
\* whose TTL is above 1 or whose destination is the arrival interface's own
\* address, the handler transmits nothing and leaves the ARP cache and the
\* pending queues unchanged; a frame with an invalid checksum, TTL 0 or 1 and
\* another destination is answered before its checksum is looked at, and what
\* the handler sends or queues then is ICMP time exceeded only.
C36_BadChecksumIgnoredAfterTtl ==
    [][BadChecksumHandled =>
          IF TtlRanOut
          THEN \A q \in HandedIp' :
                  /\ q.proto = IP_PROTO_ICMP
                  /\ q.icmp.mtype = ICMP_TYPE_TIME_EXCEEDED
                  /\ q.dest_addr = arp_call'.pkts[1].payload.source_addr
          ELSE NothingDone]_vars

\* a frame with TTL 64 and a checksum that does not verify, for a destination
\* the table has a route to, has been dropped, the ARP cache holding an entry
C36_Witness ==
    /\ arp_call.op = "handle_ip_packet"
    /\ FrameIn.payload.frame_size >= ETHER_HDR_SIZE + IP_HDR_SIZE
    /\ ~checksum_valid(FrameIn.payload)
    /\ FrameIn.payload.ttl = 64
    /\ rtable_lookup(root_, FrameIn.payload.dest_addr) # NullOpt
    /\ DOMAIN arp_table_ # {}
    /\ link = <<>>

\* C37: whenever a handler of the router has returned, no IPv4 address has
\* both an entry in the ARP cache and a queue of pending frames.
C37_CachedOrPending == DOMAIN arp_table_ \cap DOMAIN pending_packets_ = {}

\* the reply of a next hop for which frames were waiting has been handled
\* while frames for another next hop go on waiting
C37_Witness ==
    /\ arp_call.op = "arp_reply"
    /\ arp_call.pkts # <<>>
    /\ arp_call.ip \in DOMAIN arp_table_
    /\ DOMAIN pending_packets_ # {}
    /\ Len(link) = Len(arp_call.pkts)

\* no two subscriber records hold the same descriptor
OneRecordPerDescriptor ==
    \A s1, s2 \in DOMAIN Infos :
       (s1 # s2 /\ Infos[s1].sockfd # NoSock) => Infos[s1].sockfd # Infos[s2].sockfd

\* C38: a CONNECT request on a descriptor a subscriber is attached on adds no
\* record to the id index, detaches the subscriber attached on that
\* descriptor (every other record stays as it was), closes the descriptor and
\* takes it off the watched list; and served through handle_tcp_request no
\* descriptor is ever held by two subscriber records.
C38_ConnectOnAttachedDetaches ==
    /\ []OneRecordPerDescriptor
    /\ [][(/\ last_call'.op = "connect_request"
           /\ is_subscriber_connected(subscribers_registry_, last_call'.sockfd))
          => LET sockfd == last_call'.sockfd
                 was == get_subscriber_id(subscribers_registry_, sockfd).id
             IN
             /\ ev'.why = "connect_on_attached"
             /\ DOMAIN Infos' = DOMAIN Infos
             /\ ~is_connected(Infos'[was])
             /\ Infos'[was].topics = Infos[was].topics
             /\ \A s \in DOMAIN Infos \ {was} : Infos'[s] = Infos[s]
             /\ ~is_subscriber_connected(subscribers_registry_', sockfd)
             /\ sockfd \in kernel'.closed
             /\ sockfd \notin Watched']_vars

\* a CONNECT with an id the registry has never seen came on an attached
\* descriptor, and the subscriber that holds a pattern is detached
C38_Witness ==
    /\ ev.kind = "request" /\ ev.why = "connect_on_attached"
    /\ last_call.id \notin DOMAIN Infos
    /\ ev.fd \in kernel.closed
    /\ ev.fd \notin Watched
    /\ \E s \in DOMAIN Infos : ~is_connected(Infos[s]) /\ Infos[s].topics # {}

\* how many entries of the watched list hold descriptor d
TimesWatched(d) == Cardinality({j \in 1..Len(poll_fds_) : poll_fds_[j].fd = d})

\* the descriptors a publication on topic t is sent to: the fan-out loop skips
\* the negative ones
Recipients(t) ==
    {d \in retrieve_topic_subscribers(subscribers_registry_, t).fds : d >= 0}

\* C39: every descriptor of the registry's descriptor index is in the watched
\* list exactly once and is open, every descriptor a publication would be sent
\* to is in the descriptor index, and a step that closes a descriptor also
\* takes it off the watched list and out of the descriptor index.
C39_IndexedWatchedOpen ==
    /\ [](\A d \in DOMAIN subscribers_registry_.sock_subscribers_ :
             /\ TimesWatched(d) = 1
             /\ d \in Watched
             /\ d \notin kernel.closed)
    /\ [](\A t \in RegTopics :
             Recipients(t) \subseteq DOMAIN subscribers_registry_.sock_subscribers_)
    /\ [][\A d \in kernel'.closed \ kernel.closed :
             /\ d \notin {poll_fds_'[j].fd : j \in 1..Len(poll_fds_')}
             /\ d \notin DOMAIN subscribers_registry_'.sock_subscribers_]_vars

\* a subscriber with a pattern was detached and its descriptor closed, the
\* descriptor number was given to a later connection that has sent no CONNECT,
\* and another subscriber is attached
C39_Witness ==
    /\ last_call.op = "accept"
    /\ last_call.sockfd \in Watched
    /\ ~is_subscriber_connected(subscribers_registry_, last_call.sockfd)
    /\ \E s \in DOMAIN Infos : ~is_connected(Infos[s]) /\ Infos[s].topics # {}
    /\ \E s \in DOMAIN Infos : is_connected(Infos[s]) /\ Infos[s].sockfd > last_call.sockfd

\* the pairs an iteration of the loop pushed: positions' is the queue without
\* its front, followed by them
Pushed == SubSeq(positions', Len(positions), Len(positions'))

\* C40: every pair an iteration of matches() pushes has a pattern index above
\* that of the pair the iteration popped and not above the pattern's length,
\* and a topic index not above the topic's length; and every call of matches()
\* returns (true, false or by the exception for a wildcard argument).
C40_MatchesTerminates ==
    /\ [][(m_result = "running" /\ positions # <<>>)
          => /\ Len(positions') >= Len(positions) - 1
             /\ SubSeq(positions', 1, Len(positions) - 1) = Tail(positions)
             /\ \A k \in 1..Len(Pushed) :
                   /\ Pushed[k][1] > Head(positions)[1]
                   /\ Pushed[k][1] <= Len(m_this)
                   /\ Pushed[k][2] <= Len(m_other)
                   /\ Pushed[k][2] > Head(positions)[2]]_vars
    /\ <>(m_result \in {"true", "false", "thrown"})

\* a '*' put several pairs on the queue, one of them at the end of both the
\* pattern and the topic
C40_Witness ==
    /\ m_result = "running"
    /\ Len(positions) >= 3
    /\ \E k \in 1..Len(positions) : positions[k] = <<Len(m_this), Len(m_other)>>
    /\ \E k \in 1..Len(positions) : positions[k][2] < Len(m_other)

====
